---- MODULE Spec2Model ----
(***************************************************************************)
(* Appointment scheduling, report lifecycle and the memoized view cache    *)
(* of the hair-saloon booking system, with the cache purges every write    *)
(* site issues.  Each request handler is one atomic action: the whole      *)
(* handler, its store writes and its purges included.                      *)
(*                                                                         *)
(* Units: money is in cents (15.75 is 1575); dates are days relative to    *)
(* date.today() (negative = past).  A slot text is the sequence of its     *)
(* characters, so that splitting and integer parsing are computed.         *)
(***************************************************************************)
EXTENDS Integers, Sequences, FiniteSets, TLC

VARIABLES
    appts,        \* salon_appointment: appointment_id -> row
    services,     \* salon_service, keyed by its appointment_id -> row
    reports,      \* salon_report: report_id -> row
    nextApptId,   \* the appointment_id serial
    nextReportId, \* the report_id serial
    salon_user,   \* salon_user: user_id -> the columns the admins change
    cache,        \* the process-wide SimpleCache: key -> stored view
    resp,         \* the response of the last request: operation and outcome
    now,          \* time(): the seconds since the start
    expires,      \* SimpleCache: key -> the time its entry expires
    inflight,     \* thread -> the key and the value of a read between get and set
    peer,         \* the SimpleCache of a second process: key -> value, expires
    connection,   \* Database.__connection: "open", "closed" or "None"
    attempt,      \* get_cursor: the attempts that have failed in the running call
    issued,       \* the access tokens /api/login has returned
    pending       \* thread -> the request it is serving, between its steps

storeVars == <<appts, services, reports, nextApptId, nextReportId, salon_user>>
\* the clock, and what the cache of a process keeps besides the payloads
cacheVars == <<now, expires, inflight, peer>>
\* the connection of the process to the database, and the tokens it issued
processVars == <<connection, attempt, issued, pending>>
vars == <<appts, services, reports, nextApptId, nextReportId, salon_user, cache, resp, cacheVars, processVars>>

----------------------------------------------------------------------------
(* Bounds of the model *)

MaxAppts == 1
MaxReports == 1
MaxCacheEntries == 1
MaxDurationInput == 2
MaxNberInput == 2
\* appointments of one provider in the specification of the paged list
MaxPagedAppts == 6
\* warnings issued to one account
MaxWarnings == 3
\* the clock runs in steps of TickStep seconds up to MaxNow
TickStep == 20
MaxNow == 80

----------------------------------------------------------------------------
(* Program constants *)

DefaultPayRate == 1575
per_page == 5

Statuses == {"requested", "accepted", "cancelled"}
ManageStatuses == {"all", "requested", "accepted", "cancelled"}
ReportTabs == {"all", "open", "closed", "flagged"}

----------------------------------------------------------------------------
(* The users table (read-only here): one client, two professionals, one    *)
(* super admin.  Professional 2 has no pay rate stored (NULL, written 0),  *)
(* professional 3 is paid 20.00.                                           *)

Users == 1..4

user_type(u) ==
    CASE u = 1 -> "client"
      [] u \in {2, 3} -> "professional"
      [] OTHER -> "admin_super"

pay_rate(u) == IF u = 3 THEN 2000 ELSE 0

get_client_choices == {u \in Users : user_type(u) = "client"}
get_provider_choices == {u \in Users : user_type(u) = "professional"}

\* db.get_user_by_id(pid)[14] or 15.75
get_pay_rates(pid) == IF pay_rate(pid) = 0 THEN DefaultPayRate ELSE pay_rate(pid)

----------------------------------------------------------------------------
(* Slot texts *)

DigitChars == <<"0", "1", "2", "3", "4", "5", "6", "7", "8", "9">>

IsDigit(c) == \E i \in 1..10 : DigitChars[i] = c
DigitValue(c) == (CHOOSE i \in 1..10 : DigitChars[i] = c) - 1

\* str(n) for 0 <= n < 100
Digits(n) ==
    IF n < 10 THEN <<DigitChars[n + 1]>>
    ELSE <<DigitChars[(n \div 10) + 1], DigitChars[(n % 10) + 1]>>

\* f"{h}-{h+1}"
SlotText(h) == Digits(h) \o <<"-">> \o Digits(h + 1)

\* SLOTS: the choices of the slot drop-downs
SLOTS == {SlotText(h) : h \in (1..11) \cup (13..21)}

\* slot.split("-")[0]: the text before the first "-", the whole text if none
SplitFirst(slot) ==
    LET dashes == {i \in 1..Len(slot) : slot[i] = "-"}
    IN  IF dashes = {} THEN slot
        ELSE SubSeq(slot, 1, (CHOOSE i \in dashes : \A j \in dashes : i <= j) - 1)

\* int(text) raises ValueError unless text is a non-empty run of digits
\* (signs, blanks and underscores, which int() also takes, are not among
\* the texts drawn here)
IntParses(text) == Len(text) > 0 /\ \A i \in 1..Len(text) : IsDigit(text[i])

RECURSIVE IntValue(_)
IntValue(text) ==
    IF Len(text) = 0 THEN 0
    ELSE 10 * IntValue(SubSeq(text, 1, Len(text) - 1)) + DigitValue(text[Len(text)])

\* start_hour = int(slot.split("-")[0])
start_hour(slot) == IntValue(SplitFirst(slot))

max_end_hour(slot) == IF start_hour(slot) < 12 THEN 12 ELSE 22
\* A variant that counts every slot up to the end of the afternoon block
max_duration_to_evening(slot) == 22 - start_hour(slot)
max_duration(slot) == max_end_hour(slot) - start_hour(slot)

\* A variant of the checks that compares the services with the duration
\* before it checks the range of the duration
validate_services_first(slot, duration, nber_services) ==
    IF ~IntParses(SplitFirst(slot)) THEN "InvalidSlotFormat"
    ELSE IF nber_services > duration THEN "ServiceCountExceedsDuration"
    ELSE IF ~(1 <= duration /\ duration <= max_duration(slot)) THEN "DurationOutOfRange"
    ELSE "ok"

\* The checks of modify_appointment and edit_appointment, in their order:
\* the name of the first one that fails, "ok" when none does.
ValidateScheduling(slot, duration, nber_services) ==
    IF ~IntParses(SplitFirst(slot)) THEN "InvalidSlotFormat"
    ELSE IF ~(1 <= duration /\ duration <= max_duration(slot)) THEN "DurationOutOfRange"
    ELSE IF nber_services > duration THEN "ServiceCountExceedsDuration"
    ELSE "ok"

\* The spec's slot form "<int>-<int+1>"
WellFormedSlot(slot) == \E h \in 0..98 : slot = SlotText(h)

----------------------------------------------------------------------------
(* Store queries.  A, S and R are the appointment, service and report      *)
(* tables the query runs on.  Every result row has the same fields; a      *)
(* column the query does not select is 0 (FALSE for can_write_report).     *)

CharCode(c) ==
    CASE c = "-" -> 45
      [] IsDigit(c) -> 48 + DigitValue(c)
      [] c = "o" -> 111
      [] OTHER -> 116

\* text comparison of two slot texts, character by character
RECURSIVE TextLess(_, _)
TextLess(s, t) ==
    IF Len(t) = 0 THEN FALSE
    ELSE IF Len(s) = 0 THEN TRUE
    ELSE IF CharCode(Head(s)) # CharCode(Head(t)) THEN CharCode(Head(s)) < CharCode(Head(t))
    ELSE TextLess(Tail(s), Tail(t))

\* ORDER BY date_appoint ASC|DESC, slot ASC; rows equal on both come in
\* appointment_id order
Before(A, i, j, desc) ==
    IF A[i].date_appoint # A[j].date_appoint
    THEN IF desc THEN A[i].date_appoint > A[j].date_appoint
                 ELSE A[i].date_appoint < A[j].date_appoint
    ELSE IF A[i].slot # A[j].slot THEN TextLess(A[i].slot, A[j].slot)
    ELSE i < j

RECURSIVE OrderBy(_, _, _)
OrderBy(A, ids, desc) ==
    IF ids = {} THEN <<>>
    ELSE LET first == CHOOSE i \in ids : \A j \in ids \ {i} : Before(A, i, j, desc)
         IN  <<first>> \o OrderBy(A, ids \ {first}, desc)

\* SELECT 1 FROM salon_report WHERE appointment_id = %s
has_report_for_appointment(R, appointment_id) ==
    \E r \in DOMAIN R : R[r].appointment_id = appointment_id

\* LEFT JOIN salon_service: service_duration and service_price default to 0
get_appointment_by_id(A, S, id) ==
    [appointment_id |-> id, status |-> A[id].status,
     date_appoint |-> A[id].date_appoint, slot |-> A[id].slot,
     consumer_id |-> A[id].consumer_id, provider_id |-> A[id].provider_id,
     nber_services |-> A[id].nber_services,
     service_duration |-> IF id \in DOMAIN S THEN S[id].service_duration ELSE 0,
     service_price |-> IF id \in DOMAIN S THEN S[id].service_price ELSE 0,
     can_write_report |-> FALSE]

\* get_all_appointments selects no nber_services
AllRow(A, S, id) == [get_appointment_by_id(A, S, id) EXCEPT !.nber_services = 0]

\* get_appointments_by_client / _by_professional select no nber_services,
\* duration or price
PartyRow(A, S, id) ==
    [get_appointment_by_id(A, S, id) EXCEPT
        !.nber_services = 0, !.service_duration = 0, !.service_price = 0]

\* get_appointments_by_user selects no consumer_id and no nber_services
UserRow(A, S, id) ==
    [get_appointment_by_id(A, S, id) EXCEPT !.nber_services = 0, !.consumer_id = 0]

get_all_appointments(A, S) ==
    LET ids == OrderBy(A, DOMAIN A, FALSE)
    IN  [n \in 1..Len(ids) |-> AllRow(A, S, ids[n])]

\* INNER JOIN salon_service: an appointment without a service row is left out
get_appointments_by_client(A, S, user_id) ==
    LET ids == OrderBy(A, {i \in DOMAIN A \cap DOMAIN S : A[i].consumer_id = user_id}, FALSE)
    IN  [n \in 1..Len(ids) |-> PartyRow(A, S, ids[n])]

get_appointments_by_professional(A, S, user_id) ==
    LET ids == OrderBy(A, {i \in DOMAIN A \cap DOMAIN S : A[i].provider_id = user_id}, TRUE)
    IN  [n \in 1..Len(ids) |-> PartyRow(A, S, ids[n])]

get_appointments_by_user(A, S, user_id) ==
    LET ids == OrderBy(A, {i \in DOMAIN A \cap DOMAIN S : A[i].consumer_id = user_id}, TRUE)
    IN  [n \in 1..Len(ids) |-> UserRow(A, S, ids[n])]

\* paginate(data, page, per_page): data[(page-1)*per_page : page*per_page]
paginate(data, page) ==
    LET lo == (page - 1) * per_page + 1
        hi == IF page * per_page < Len(data) THEN page * per_page ELSE Len(data)
    IN  [rows |-> SubSeq(data, lo, hi),
         total_pages |-> (Len(data) + per_page - 1) \div per_page]

----------------------------------------------------------------------------
(* The cached views.  A cache key names the view and its arguments; an     *)
(* argument the view does not have is 0 or "".  A stored view is what the  *)
(* view function returned: whether the record was found, the rows it       *)
(* rendered and the page count.                                            *)

Key(view, id, role, arg, page) ==
    [view |-> view, id |-> id, role |-> role, arg |-> arg, page |-> page]

NoKey == Key("none", 0, "", "", 0)

Stored(found, rows, total_pages) ==
    [found |-> found, rows |-> rows, total_pages |-> total_pages]

NoBody == Stored(FALSE, <<>>, 0)

\* views decorated with @cache.memoize: keyed by function and arguments
MemoizedViews ==
    {"myAppointments", "manageAppointments", "viewAdminAppointment",
     "userAppointments", "apiSingleAppointment",
     "myReports", "reportDetail", "reportView", "adminViewReport",
     "adminReportView", "userReports", "manageReports", "apiReports",
     "apiSingleReport", "manageUsers", "viewUser"}

\* views decorated with @cache.cached: keyed by the request path (and query)
CachedViews == {"listAllAppointments", "apiAppointments"}

\* _get_my_appointments_cached(user_id, user_type, page)
my_appointments_view(A, S, R, user_id, utype, page) ==
    LET appts_ == IF utype = "client" THEN get_appointments_by_client(A, S, user_id)
                  ELSE IF utype = "professional"
                       THEN get_appointments_by_professional(A, S, user_id)
                       ELSE get_appointments_by_user(A, S, user_id)
        pg == paginate(appts_, page)
        result == [n \in 1..Len(pg.rows) |->
                     [pg.rows[n] EXCEPT !.can_write_report =
                         /\ utype = "client"
                         /\ pg.rows[n].date_appoint < 0
                         /\ ~has_report_for_appointment(R, pg.rows[n].appointment_id)]]
    IN  Stored(TRUE, result, pg.total_pages)

\* _get_manage_appointments_cached(user_type, filter_status)
manage_appointments_view(A, S, filter_status) ==
    LET all_appointments == get_all_appointments(A, S)
        Keep(a) == a.status = filter_status
    IN  Stored(TRUE,
               IF filter_status # "all" THEN SelectSeq(all_appointments, Keep)
               ELSE all_appointments,
               0)

\* _get_view_appointment_cached(appt_id, return_status) and the API's
\* _get_single_appointment_cached(appt_id)
single_appointment_view(A, S, appt_id) ==
    IF appt_id \in DOMAIN A THEN Stored(TRUE, <<get_appointment_by_id(A, S, appt_id)>>, 0)
    ELSE NoBody

\* _get_user_appointments_cached(user_id)
user_appointments_view(A, S, U, user_id) ==
    IF user_id \in DOMAIN U THEN Stored(TRUE, get_appointments_by_user(A, S, user_id), 0)
    ELSE NoBody

\* list_all_appointments with ?status=<arg>&page=<page>, sorted by date_appoint
list_all_appointments_view(A, S, status, page) ==
    LET appts_ == get_all_appointments(A, S)
        wanted == IF status = "approved" THEN "accepted" ELSE status
        Keep(a) == a.status = wanted
        filtered == IF status # "all" THEN SelectSeq(appts_, Keep) ELSE appts_
        pg == paginate(filtered, page)
    IN  Stored(TRUE, pg.rows, pg.total_pages)

\* the API's _get_appointments_cached()
api_appointments_view(A, S) == Stored(TRUE, get_all_appointments(A, S), 0)

----------------------------------------------------------------------------
(* Report queries and report views.  date_report is not modelled: reports  *)
(* come in the order of their creation, newest first.                      *)

ReportRow(appointment_id, status, feedback_client, feedback_professional) ==
    [appointment_id |-> appointment_id, status |-> status,
     feedback_client |-> feedback_client,
     feedback_professional |-> feedback_professional,
     flagged_by_professional |-> FALSE,
     client_seen |-> "NULL"]

RECURSIVE Descending(_)
Descending(ids) ==
    IF ids = {} THEN <<>>
    ELSE LET top == CHOOSE i \in ids : \A j \in ids : j <= i
         IN  <<top>> \o Descending(ids \ {top})

\* A result row of a report query; the parties stand for the consumer_name
\* and provider_name the JOIN with salon_appointment selects (0 when the
\* query does not join)
ReportResult(R, A, report_id, joined) ==
    [report_id |-> report_id, appointment_id |-> R[report_id].appointment_id,
     status |-> R[report_id].status,
     feedback_client |-> R[report_id].feedback_client,
     feedback_professional |-> R[report_id].feedback_professional,
     flagged_by_professional |-> R[report_id].flagged_by_professional,
     consumer_id |-> IF joined THEN A[R[report_id].appointment_id].consumer_id ELSE 0,
     provider_id |-> IF joined THEN A[R[report_id].appointment_id].provider_id ELSE 0]

\* get_report_by_id: JOIN salon_appointment, so a report whose appointment
\* is gone is not found
report_found(R, A, report_id) ==
    report_id \in DOMAIN R /\ R[report_id].appointment_id \in DOMAIN A

\* get_reports_by_user: the reports of the appointments the user is a party
\* of; the query selects no flagged_by_professional and no names
get_reports_by_user(R, A, user_id) ==
    LET ids == Descending({r \in DOMAIN R :
                    /\ R[r].appointment_id \in DOMAIN A
                    /\ \/ A[R[r].appointment_id].consumer_id = user_id
                       \/ A[R[r].appointment_id].provider_id = user_id})
    IN  [n \in 1..Len(ids) |->
            [ReportResult(R, A, ids[n], FALSE) EXCEPT !.flagged_by_professional = FALSE]]

\* bp_report: _get_user_reports_cached(user_id, user_type, page)
my_reports_view(R, A, user_id, page) ==
    LET pg == paginate(get_reports_by_user(R, A, user_id), page)
    IN  Stored(TRUE, pg.rows, IF pg.total_pages < 1 THEN 1 ELSE pg.total_pages)

\* bp_report: _get_report_view_cached(report_id, return_to); bp_admin:
\* _get_view_report_cached(report_id); bp_api: _get_single_report_cached
single_report_view(R, A, report_id) ==
    IF report_found(R, A, report_id)
    THEN Stored(TRUE, <<ReportResult(R, A, report_id, TRUE)>>, 0)
    ELSE NoBody

\* bp_admin: _get_user_reports_cached(user_id, return_to): the reports of
\* get_appointments_by_user(user_id), one get_report_by_appointment each
user_reports_view(R, A, S, U, user_id) ==
    IF user_id \notin DOMAIN U THEN NoBody
    ELSE LET appointments == get_appointments_by_user(A, S, user_id)
             Of(n) == {r \in DOMAIN R : R[r].appointment_id = appointments[n].appointment_id}
             with == SelectSeq([n \in 1..Len(appointments) |-> n], LAMBDA n : Of(n) # {})
         IN  Stored(TRUE,
                    [m \in 1..Len(with) |->
                        ReportResult(R, A, CHOOSE r \in Of(with[m]) : \A q \in Of(with[m]) : r <= q,
                                     FALSE)],
                    0)

\* The salon_user columns the user views show
SalonUserRow(active, warning_count, user_name) ==
    [active |-> active, warning_count |-> warning_count, user_name |-> user_name]

UserResult(U, user_id) ==
    [user_id |-> user_id, user_name |-> U[user_id].user_name,
     user_type |-> user_type(user_id), active |-> U[user_id].active,
     warning_count |-> U[user_id].warning_count]

\* the WHERE condition _get_manage_users_cached builds for a filter
manage_users_condition(U, utype, filter_type, user_id) ==
    CASE filter_type = "clients" -> user_type(user_id) = "client"
      [] filter_type = "professionals" -> user_type(user_id) = "professional"
      [] filter_type = "admins" ->
            utype = "admin_super"
            /\ user_type(user_id) \in {"admin_user", "admin_appoint", "admin_super"}
      [] filter_type = "warned" -> U[user_id].warning_count > 0
      [] filter_type = "deactivated" -> ~U[user_id].active
      [] OTHER -> TRUE

\* ascending sequence of a set of ids
RECURSIVE Ascending(_)
Ascending(ids) ==
    IF ids = {} THEN <<>>
    ELSE LET least == CHOOSE i \in ids : \A j \in ids : i <= j
         IN  <<least>> \o Ascending(ids \ {least})

\* bp_admin: _get_manage_users_cached(user_type, filter_type)
manage_users_view(U, utype, filter_type) ==
    LET ids == Ascending({i \in DOMAIN U : manage_users_condition(U, utype, filter_type, i)})
    IN  Stored(TRUE, [n \in 1..Len(ids) |-> UserResult(U, ids[n])], 0)

\* bp_admin: get_view_user_cached(user_id, return_type)
view_user_view(U, user_id) ==
    IF user_id \in DOMAIN U THEN Stored(TRUE, <<UserResult(U, user_id)>>, 0) ELSE NoBody

\* What the view function of key k returns on the tables A, S, R, U
Produce(k, A, S, R, U) ==
    CASE k.view = "myAppointments" -> my_appointments_view(A, S, R, k.id, k.role, k.page)
      [] k.view = "manageAppointments" -> manage_appointments_view(A, S, k.arg)
      [] k.view = "viewAdminAppointment" -> single_appointment_view(A, S, k.id)
      [] k.view = "apiSingleAppointment" -> single_appointment_view(A, S, k.id)
      [] k.view = "userAppointments" -> user_appointments_view(A, S, U, k.id)
      [] k.view = "listAllAppointments" -> list_all_appointments_view(A, S, k.arg, k.page)
      [] k.view = "apiAppointments" -> api_appointments_view(A, S)
      [] k.view = "myReports" -> my_reports_view(R, A, k.id, k.page)
      [] k.view = "reportView" -> single_report_view(R, A, k.id)
      [] k.view = "adminViewReport" -> single_report_view(R, A, k.id)
      [] k.view = "apiSingleReport" -> single_report_view(R, A, k.id)
      [] k.view = "userReports" -> user_reports_view(R, A, S, U, k.id)
      [] k.view = "manageUsers" -> manage_users_view(U, k.role, k.arg)
      [] k.view = "viewUser" -> view_user_view(U, k.id)
      [] OTHER -> NoBody

\* cache.delete_memoized(f, *args): the entry of exactly these arguments
delete_memoized(c, k) == [x \in DOMAIN c \ {k} |-> c[x]]

\* cache.delete_memoized(f) without arguments resets the memoize version of
\* f, which drops every entry of a memoized f; an entry of a @cache.cached
\* view is keyed by the request path and is not touched
delete_memoized_all(c, view) ==
    IF view \in MemoizedViews
    THEN [x \in {y \in DOMAIN c : y.view # view} |-> c[x]]
    ELSE c

RECURSIVE delete_each(_, _)
delete_each(c, keys) ==
    IF keys = {} THEN c
    ELSE LET k == CHOOSE x \in keys : TRUE
         IN  delete_each(delete_memoized(c, k), keys \ {k})

----------------------------------------------------------------------------
(* Store writes *)

Put(T, id, row) == [x \in DOMAIN T \cup {id} |-> IF x = id THEN row ELSE T[x]]
Drop(T, id) == [x \in DOMAIN T \ {id} |-> T[x]]

\* add_appointment: status defaults to "requested", nber_services to 1
AppointmentRow(status, date_appoint, slot, consumer_id, provider_id, nber_services) ==
    [status |-> status, date_appoint |-> date_appoint, slot |-> slot,
     consumer_id |-> consumer_id, provider_id |-> provider_id,
     nber_services |-> nber_services]

ServiceRow(service_duration, service_price) ==
    [service_duration |-> service_duration, service_price |-> service_price]

\* update_appointment_status: UPDATE salon_appointment SET status
update_appointment_status(A, appt_id, status) ==
    IF appt_id \in DOMAIN A THEN [A EXCEPT ![appt_id].status = status] ELSE A

\* update_appointment, first statement: UPDATE salon_appointment SET
\* provider, consumer, status, venue, date_appoint, slot (not nber_services)
update_appointment_row(A, appointment_id, data) ==
    IF appointment_id \in DOMAIN A
    THEN [A EXCEPT ![appointment_id] =
            [@ EXCEPT !.provider_id = data.provider_id,
                      !.consumer_id = data.consumer_id,
                      !.status = data.status,
                      !.date_appoint = data.date_appoint,
                      !.slot = data.slot]]
    ELSE A

\* update_appointment, second statement: UPDATE salon_service SET name,
\* duration, price
update_appointment_service(S, appointment_id, data) ==
    IF appointment_id \in DOMAIN S
    THEN [S EXCEPT ![appointment_id] =
            ServiceRow(data.service_duration, data.service_price)]
    ELSE S

----------------------------------------------------------------------------
(* Responses and the purge helpers of the write sites *)

\* What the caller is told: the operation and its outcome ("ok" or the
\* name of the error the handler flashes or returns)
Respond(op, result) == [op |-> op, result |-> result]

\* bp_appointment: invalidate_my_appt_cache() for current_user u
invalidate_my_appt_cache(c, u) ==
    delete_memoized_all(
        delete_memoized(c, Key("myAppointments", u, user_type(u), "", 1)),
        "listAllAppointments")

\* bp_admin: invalidate_appointment_cache(cache, user_type)
admin_invalidate_appointment_cache(c, utype) ==
    delete_each(c, {Key("manageAppointments", 0, utype, s, 0) : s \in ManageStatuses})

\* bp_api: invalidate_appointment_cache(appt_id); appt_id = 0 is "no id"
api_invalidate_appointment_cache(c, appt_id) ==
    LET c1 == delete_memoized_all(c, "apiAppointments")
    IN  IF appt_id # 0 THEN delete_memoized(c1, Key("apiSingleAppointment", appt_id, "", "", 0))
        ELSE c1

\* role_required("admin_appoint", "admin_super")
role_required(u) == user_type(u) \in {"admin_appoint", "admin_super"}

----------------------------------------------------------------------------
(* bp_appointment: the routes of clients and professionals *)

\* POST /create by user u
create_appointment(u, provider_id, date_appoint, slot, service_duration) ==
    /\ appts' = Put(appts, nextApptId,
                    AppointmentRow("requested", date_appoint, slot, u, provider_id, 1))
    /\ services' = Put(services, nextApptId,
                       ServiceRow(service_duration,
                                  service_duration * get_pay_rates(provider_id)))
    /\ nextApptId' = nextApptId + 1
    /\ cache' = invalidate_my_appt_cache(cache, u)
    /\ resp' = Respond("create", "ok")
    /\ UNCHANGED <<reports, nextReportId, salon_user, cacheVars, processVars>>

\* A variant of accept that lets either party of the appointment accept it
accept_by_any_party(u, appointment_id) ==
    IF appointment_id \notin DOMAIN appts
       \/ u \notin {appts[appointment_id].provider_id, appts[appointment_id].consumer_id}
    THEN /\ resp' = Respond("accept", "NotProvider")
         /\ UNCHANGED <<storeVars, cache, cacheVars, processVars>>
    ELSE /\ appts' = update_appointment_status(appts, appointment_id, "accepted")
         /\ cache' = invalidate_my_appt_cache(cache, u)
         /\ resp' = Respond("accept", "ok")
         /\ UNCHANGED <<services, reports, nextApptId, nextReportId, salon_user, cacheVars, processVars>>

\* POST /accept/<appointment_id> by user u
accept_appointment(u, appointment_id) ==
    IF appointment_id \notin DOMAIN appts \/ u # appts[appointment_id].provider_id
    THEN /\ resp' = Respond("accept", "NotProvider")
         /\ UNCHANGED <<storeVars, cache, cacheVars, processVars>>
    ELSE LET appointment ==
                 [get_appointment_by_id(appts, services, appointment_id)
                     EXCEPT !.status = "accepted"]
         IN  /\ appts' = update_appointment_row(appts, appointment_id, appointment)
             /\ services' = update_appointment_service(services, appointment_id, appointment)
             /\ cache' = invalidate_my_appt_cache(cache, u)
             /\ resp' = Respond("accept", "ok")
             /\ UNCHANGED <<reports, nextApptId, nextReportId, salon_user, cacheVars, processVars>>

\* A variant of cancel that skips the check of the current status
cancel_from_any_status(u, appointment_id) ==
    IF appointment_id \notin DOMAIN appts
    THEN /\ resp' = Respond("cancel", "NotFound")
         /\ UNCHANGED <<storeVars, cache, cacheVars, processVars>>
    ELSE IF u \notin {appts[appointment_id].provider_id, appts[appointment_id].consumer_id}
    THEN /\ resp' = Respond("cancel", "NotParticipant")
         /\ UNCHANGED <<storeVars, cache, cacheVars, processVars>>
    ELSE /\ appts' = update_appointment_status(appts, appointment_id, "cancelled")
         /\ cache' = invalidate_my_appt_cache(cache, u)
         /\ resp' = Respond("cancel", "ok")
         /\ UNCHANGED <<services, reports, nextApptId, nextReportId, salon_user, cacheVars, processVars>>

\* POST /cancel/<appointment_id> by user u
cancel_appointment(u, appointment_id) ==
    IF appointment_id \notin DOMAIN appts
    THEN /\ resp' = Respond("cancel", "NotFound")
         /\ UNCHANGED <<storeVars, cache, cacheVars, processVars>>
    ELSE IF u \notin {appts[appointment_id].provider_id, appts[appointment_id].consumer_id}
    THEN /\ resp' = Respond("cancel", "NotParticipant")
         /\ UNCHANGED <<storeVars, cache, cacheVars, processVars>>
    ELSE IF appts[appointment_id].status # "requested"
    THEN /\ resp' = Respond("cancel", "InvalidTransition")
         /\ UNCHANGED <<storeVars, cache, cacheVars, processVars>>
    ELSE /\ appts' = update_appointment_status(appts, appointment_id, "cancelled")
         /\ cache' = invalidate_my_appt_cache(cache, u)
         /\ resp' = Respond("cancel", "ok")
         /\ UNCHANGED <<services, reports, nextApptId, nextReportId, salon_user, cacheVars, processVars>>

\* db.delete_appointment: DELETE the service, then the appointment
db_delete_appointment_services(S, appt_id) == Drop(S, appt_id)
db_delete_appointment_appts(A, appt_id) == Drop(A, appt_id)

\* POST /delete/<appointment_id> by user u
delete_appointment(u, appointment_id) ==
    IF appointment_id \notin DOMAIN appts
    THEN /\ resp' = Respond("delete", "NotFound")
         /\ UNCHANGED <<storeVars, cache, cacheVars, processVars>>
    ELSE IF ~(\/ u \in {appts[appointment_id].consumer_id, appts[appointment_id].provider_id}
              \/ user_type(u) \in {"admin_user", "admin_super"})
    THEN /\ resp' = Respond("delete", "Unauthorized")
         /\ UNCHANGED <<storeVars, cache, cacheVars, processVars>>
    ELSE IF has_report_for_appointment(reports, appointment_id)
    THEN /\ resp' = Respond("delete", "ReportLinked")
         /\ UNCHANGED <<storeVars, cache, cacheVars, processVars>>
    ELSE /\ services' = db_delete_appointment_services(services, appointment_id)
         /\ appts' = db_delete_appointment_appts(appts, appointment_id)
         /\ cache' = invalidate_my_appt_cache(cache, u)
         /\ resp' = Respond("delete", "ok")
         /\ UNCHANGED <<reports, nextApptId, nextReportId, salon_user, cacheVars, processVars>>

\* The two UPDATE statements of modify_appointment and edit_appointment on
\* salon_appointment: date, slot, venue, provider, consumer, nber_services
update_form_row(A, appointment_id, consumer_id, provider_id, date_appoint, slot, nber_services) ==
    IF appointment_id \in DOMAIN A
    THEN [A EXCEPT ![appointment_id] =
            [@ EXCEPT !.date_appoint = date_appoint, !.slot = slot,
                      !.provider_id = provider_id, !.consumer_id = consumer_id,
                      !.nber_services = nber_services]]
    ELSE A

\* POST /modify_appointment/<appointment_id> by user u
modify_appointment(u, appointment_id, consumer_id, provider_id, date_appoint, slot, nber_services, duration) ==
    IF appointment_id \notin DOMAIN appts
    THEN /\ resp' = Respond("modify", "NotFound")
         /\ UNCHANGED <<storeVars, cache, cacheVars, processVars>>
    ELSE IF \/ user_type(u) = "client" /\ u # appts[appointment_id].consumer_id
            \/ user_type(u) = "professional" /\ u # appts[appointment_id].provider_id
    THEN /\ resp' = Respond("modify", "Unauthorized")
         /\ UNCHANGED <<storeVars, cache, cacheVars, processVars>>
    ELSE IF ValidateScheduling(slot, duration, nber_services) # "ok"
    THEN /\ resp' = Respond("modify", ValidateScheduling(slot, duration, nber_services))
         /\ UNCHANGED <<storeVars, cache, cacheVars, processVars>>
    ELSE /\ appts' = update_form_row(appts, appointment_id, consumer_id, provider_id,
                                     date_appoint, slot, nber_services)
         /\ services' =
              IF appointment_id \in DOMAIN services
              THEN [services EXCEPT ![appointment_id] =
                      ServiceRow(duration, duration * get_pay_rates(provider_id))]
              ELSE services
         /\ resp' = Respond("modify", "ok")
         /\ UNCHANGED <<reports, nextApptId, nextReportId, cache, salon_user, cacheVars, processVars>>

----------------------------------------------------------------------------
(* bp_admin: the appointment routes of the admins *)

\* POST /edit_appointment/<appt_id> by user u
edit_appointment(u, appt_id, consumer_id, provider_id, date_appoint, slot, nber_services, duration) ==
    IF ~role_required(u)
    THEN /\ resp' = Respond("edit", "AccessDenied")
         /\ UNCHANGED <<storeVars, cache, cacheVars, processVars>>
    ELSE IF appt_id \notin DOMAIN appts
    THEN /\ resp' = Respond("edit", "NotFound")
         /\ UNCHANGED <<storeVars, cache, cacheVars, processVars>>
    ELSE IF ValidateScheduling(slot, duration, nber_services) # "ok"
    THEN /\ resp' = Respond("edit", ValidateScheduling(slot, duration, nber_services))
         /\ UNCHANGED <<storeVars, cache, cacheVars, processVars>>
    ELSE /\ appts' = update_form_row(appts, appt_id, consumer_id, provider_id,
                                     date_appoint, slot, nber_services)
         /\ services' =
              IF appt_id \in DOMAIN services
              THEN [services EXCEPT ![appt_id].service_duration = duration]
              ELSE services
         /\ cache' = delete_each(admin_invalidate_appointment_cache(cache, user_type(u)),
                                 {Key("userAppointments", consumer_id, "", "", 0),
                                  Key("userAppointments", provider_id, "", "", 0)})
         /\ resp' = Respond("edit", "ok")
         /\ UNCHANGED <<reports, nextApptId, nextReportId, salon_user, cacheVars, processVars>>

\* POST /delete_appointment/<appt_id> (bp_admin) by user u
admin_delete_appointment(u, appt_id) ==
    IF ~role_required(u)
    THEN /\ resp' = Respond("admin_delete", "AccessDenied")
         /\ UNCHANGED <<storeVars, cache, cacheVars, processVars>>
    ELSE IF appt_id \notin DOMAIN appts
    THEN /\ resp' = Respond("admin_delete", "NotFound")
         /\ UNCHANGED <<storeVars, cache, cacheVars, processVars>>
    ELSE /\ services' = db_delete_appointment_services(services, appt_id)
         /\ appts' = db_delete_appointment_appts(appts, appt_id)
         /\ cache' = delete_each(admin_invalidate_appointment_cache(cache, user_type(u)),
                                 {Key("userAppointments", appts[appt_id].consumer_id, "", "", 0),
                                  Key("userAppointments", appts[appt_id].provider_id, "", "", 0)})
         /\ resp' = Respond("admin_delete", "ok")
         /\ UNCHANGED <<reports, nextApptId, nextReportId, salon_user, cacheVars, processVars>>

\* POST /create_appointment (bp_admin) by user u: @login_required only
admin_create_appointment(u, client_id, provider_id, date_appoint, slot, duration, nb_services) ==
    /\ IF ValidateScheduling(slot, duration, nb_services) # "ok"
       THEN /\ resp' = Respond("admin_create",
                               ValidateScheduling(slot, duration, nb_services))
            /\ UNCHANGED <<storeVars, cache, cacheVars, processVars>>
       ELSE /\ appts' = Put(appts, nextApptId,
                            AppointmentRow("requested", date_appoint, slot, client_id,
                                           provider_id, nb_services))
            /\ services' = Put(services, nextApptId,
                               ServiceRow(duration,
                                          duration * nb_services * get_pay_rates(provider_id)))
            /\ nextApptId' = nextApptId + 1
            /\ cache' = admin_invalidate_appointment_cache(cache, user_type(u))
            /\ resp' = Respond("admin_create", "ok")
            /\ UNCHANGED <<reports, nextReportId, salon_user, cacheVars, processVars>>

----------------------------------------------------------------------------
(* bp_api: the JSON endpoints; they read no session, the actor is 0 *)

\* POST /api/appointments: the body names the parties and may name any of
\* the other columns; no service row is written
api_create_appointment(data) ==
    /\ appts' = Put(appts, nextApptId,
                    AppointmentRow(data.status, data.date_appoint, data.slot,
                                   data.consumer_id, data.provider_id, data.nber_services))
    /\ nextApptId' = nextApptId + 1
    /\ cache' = api_invalidate_appointment_cache(cache, 0)
    /\ resp' = Respond("api_create", "ok")
    /\ UNCHANGED <<services, reports, nextReportId, salon_user, cacheVars, processVars>>

\* PUT /api/appointments/<appt_id> with a body that names every column
\* update_appointment reads
api_update_appointment(appt_id, data) ==
    /\ appts' = update_appointment_row(appts, appt_id, data)
    /\ services' = update_appointment_service(services, appt_id, data)
    /\ cache' = api_invalidate_appointment_cache(cache, appt_id)
    /\ resp' = Respond("api_update", "ok")
    /\ UNCHANGED <<reports, nextApptId, nextReportId, salon_user, cacheVars, processVars>>

\* DELETE /api/appointments/<appt_id>
api_delete_appointment(appt_id) ==
    /\ services' = db_delete_appointment_services(services, appt_id)
    /\ appts' = db_delete_appointment_appts(appts, appt_id)
    /\ cache' = api_invalidate_appointment_cache(cache, appt_id)
    /\ resp' = Respond("api_delete", "ok")
    /\ UNCHANGED <<reports, nextApptId, nextReportId, salon_user, cacheVars, processVars>>

----------------------------------------------------------------------------
(* Reads through the cache *)

\* @cache.memoize / @cache.cached around a view: a stored entry is served
\* as it is; on a miss the view function runs and its result is stored.
\* An entry stays until it is purged: the runs cover the interval before
\* the timeout (60 s) of the entries they store.
memoize(op, k) ==
    /\ IF k \in DOMAIN cache
       THEN /\ resp' = Respond(op, "hit")
            /\ UNCHANGED cache
       ELSE /\ Cardinality(DOMAIN cache) < MaxCacheEntries
            /\ cache' = Put(cache, k, Produce(k, appts, services, reports, salon_user))
            /\ resp' = Respond(op, "miss")
    /\ UNCHANGED <<storeVars, cacheVars, processVars>>

\* GET /my-appointments?page= by user u
my_appointments(u, page) ==
    memoize("read", Key("myAppointments", u, user_type(u), "", page))

\* GET /manage_appointments?status= by user u
manage_appointments(u, filter_status) ==
    /\ role_required(u)
    /\ memoize("read", Key("manageAppointments", 0, user_type(u), filter_status, 0))

\* GET /view_admin_appointment/<appt_id>?status= by user u
view_admin_appointment(u, appt_id, return_status) ==
    /\ role_required(u)
    /\ memoize("read", Key("viewAdminAppointment", appt_id, "", return_status, 0))

\* GET /view_user_appointments/<user_id> by user u
view_user_appointments(u, user_id) ==
    memoize("read", Key("userAppointments", user_id, "", "", 0))

\* GET /list_all_appointments?status=&page=
list_all_appointments(filter_status, page) ==
    memoize("read", Key("listAllAppointments", 0, "", filter_status, page))

\* GET /api/appointments
get_appointments ==
    memoize("read", Key("apiAppointments", 0, "", "", 0))

\* GET /api/appointments/<appt_id>
get_single_appointment(appt_id) ==
    memoize("read", Key("apiSingleAppointment", appt_id, "", "", 0))

----------------------------------------------------------------------------
(* bp_report: the report routes of clients and professionals *)

\* invalidate_report_caches(report_id) for current_user u; 0 is "no id"
invalidate_report_caches(c, u, report_id) ==
    LET c1 == delete_memoized(c, Key("myReports", u, user_type(u), "", 1))
    IN  IF report_id # 0
        THEN delete_each(c1, {Key("reportDetail", report_id, "", "", 0),
                              Key("reportView", report_id, "", "my_reports", 0)})
        ELSE c1

\* ClientReportForm: the appointment must be one of
\* get_appointments_by_user(current_user)
client_report_choices(u) ==
    {i \in DOMAIN appts \cap DOMAIN services : appts[i].consumer_id = u}

\* POST /create_reports by user u
create_reports(u, appointment_id) ==
    /\ IF appointment_id \notin client_report_choices(u)
       THEN /\ resp' = Respond("create_report", "FormInvalid")
            /\ UNCHANGED <<storeVars, cache, cacheVars, processVars>>
       ELSE /\ reports' = Put(reports, nextReportId,
                              ReportRow(appointment_id, "open", "client", ""))
            /\ nextReportId' = nextReportId + 1
            /\ cache' = invalidate_report_caches(cache, u, 0)
            /\ resp' = Respond("create_report", "ok")
            /\ UNCHANGED <<appts, services, nextApptId, salon_user, cacheVars, processVars>>

\* POST /respond/<report_id> by user u with the chosen status
respond_to_report(u, report_id, status) ==
    IF user_type(u) # "professional"
    THEN /\ resp' = Respond("respond", "Unauthorized")
         /\ UNCHANGED <<storeVars, cache, cacheVars, processVars>>
    ELSE IF ~report_found(reports, appts, report_id)
    THEN /\ resp' = Respond("respond", "NotFound")
         /\ UNCHANGED <<storeVars, cache, cacheVars, processVars>>
    ELSE /\ reports' = [reports EXCEPT ![report_id] =
                           [@ EXCEPT !.feedback_professional = "professional",
                                     !.status = status,
                                     !.client_seen = "FALSE"]]
         /\ cache' = invalidate_report_caches(cache, u, report_id)
         /\ resp' = Respond("respond", "ok")
         /\ UNCHANGED <<appts, services, nextApptId, nextReportId, salon_user, cacheVars, processVars>>

\* flag_report_by_professional / unflag_report_by_professional
set_report_flag(R, report_id, flag) ==
    IF report_id \in DOMAIN R
    THEN [R EXCEPT ![report_id].flagged_by_professional = flag]
    ELSE R

\* POST /flag/<report_id> (flag = TRUE) and /unflag/<report_id> (FALSE)
flag_report(u, report_id, flag) ==
    IF user_type(u) # "professional"
    THEN /\ resp' = Respond(IF flag THEN "flag" ELSE "unflag", "Unauthorized")
         /\ UNCHANGED <<storeVars, cache, cacheVars, processVars>>
    ELSE /\ reports' = set_report_flag(reports, report_id, flag)
         /\ cache' = invalidate_report_caches(cache, u, report_id)
         /\ resp' = Respond(IF flag THEN "flag" ELSE "unflag", "ok")
         /\ UNCHANGED <<appts, services, nextApptId, nextReportId, salon_user, cacheVars, processVars>>

----------------------------------------------------------------------------
(* bp_admin: the report routes of the admins *)

\* POST /manage_reports?status=<tab> by user u: AddReport offers every
\* appointment
manage_reports_create(u, tab, appointment_id, status) ==
    /\ IF ~role_required(u)
       THEN /\ resp' = Respond("admin_create_report", "AccessDenied")
            /\ UNCHANGED <<storeVars, cache, cacheVars, processVars>>
       ELSE IF appointment_id \notin DOMAIN appts
       THEN /\ resp' = Respond("admin_create_report", "FormInvalid")
            /\ UNCHANGED <<storeVars, cache, cacheVars, processVars>>
       ELSE /\ reports' = Put(reports, nextReportId,
                              ReportRow(appointment_id, status, "client", "professional"))
            /\ nextReportId' = nextReportId + 1
            /\ cache' = delete_memoized(cache, Key("manageReports", 0, user_type(u), tab, 0))
            /\ resp' = Respond("admin_create_report", "ok")
            /\ UNCHANGED <<appts, services, nextApptId, salon_user, cacheVars, processVars>>

\* The purges edit_report and delete_report issue: the four tabs of the
\* admin's role and the "my" detail view.  report.get("consumer_id") is
\* never set (get_report_by_id returns no such field), so the user's report
\* list is not purged.
admin_report_purge(c, u, report_id) ==
    delete_each(c, {Key("manageReports", 0, user_type(u), t, 0) : t \in ReportTabs}
                   \cup {Key("adminReportView", report_id, "", "my", 0)})

\* POST /edit_report/<report_id> by user u
edit_report(u, report_id, status) ==
    IF ~role_required(u)
    THEN /\ resp' = Respond("edit_report", "AccessDenied")
         /\ UNCHANGED <<storeVars, cache, cacheVars, processVars>>
    ELSE IF ~report_found(reports, appts, report_id)
    THEN /\ resp' = Respond("edit_report", "NotFound")
         /\ UNCHANGED <<storeVars, cache, cacheVars, processVars>>
    ELSE /\ reports' = [reports EXCEPT ![report_id] =
                           [@ EXCEPT !.status = status, !.feedback_client = "client",
                                     !.feedback_professional = "professional"]]
         /\ cache' = admin_report_purge(cache, u, report_id)
         /\ resp' = Respond("edit_report", "ok")
         /\ UNCHANGED <<appts, services, nextApptId, nextReportId, salon_user, cacheVars, processVars>>

\* POST /delete_report/<report_id> by user u
delete_report(u, report_id) ==
    IF ~role_required(u)
    THEN /\ resp' = Respond("delete_report", "AccessDenied")
         /\ UNCHANGED <<storeVars, cache, cacheVars, processVars>>
    ELSE IF ~report_found(reports, appts, report_id)
    THEN /\ resp' = Respond("delete_report", "NotFound")
         /\ UNCHANGED <<storeVars, cache, cacheVars, processVars>>
    ELSE /\ reports' = Drop(reports, report_id)
         /\ cache' = admin_report_purge(cache, u, report_id)
         /\ resp' = Respond("delete_report", "ok")
         /\ UNCHANGED <<appts, services, nextApptId, nextReportId, salon_user, cacheVars, processVars>>

----------------------------------------------------------------------------
(* bp_api: the report endpoints.  They purge by current_user, which only a *)
(* request with a session has: for an anonymous request (u = 0) the write  *)
(* is committed, the purge raises and the answer is 500.                   *)

\* bp_api: invalidate_report_cache(user_type, user_id, report_id)
api_invalidate_report_cache(c, u, report_id) ==
    LET c1 == delete_memoized(c, Key("apiReports", u, user_type(u), "", 0))
    IN  IF report_id # 0
        THEN delete_memoized(c1, Key("apiSingleReport", report_id, "", "", 0))
        ELSE c1

\* POST /api/reports with a body that names the appointment and the two
\* feedbacks; status is the status of the body, "" when the body has none
\* (add_report then stores 'inactive')
api_create_report(u, appointment_id, status) ==
    /\ reports' = Put(reports, nextReportId,
                      ReportRow(appointment_id,
                                IF status = "" THEN "inactive" ELSE status,
                                "client", "professional"))
    /\ nextReportId' = nextReportId + 1
    /\ IF u = 0
       THEN /\ resp' = Respond("api_create_report", "error500")
            /\ UNCHANGED cache
       ELSE /\ cache' = api_invalidate_report_cache(cache, u, 0)
            /\ resp' = Respond("api_create_report", "ok")
    /\ UNCHANGED <<appts, services, nextApptId, salon_user, cacheVars, processVars>>

\* PUT /api/reports/<report_id> with a body that sets the status
api_update_report(u, report_id, status) ==
    /\ reports' = IF report_id \in DOMAIN reports
                  THEN [reports EXCEPT ![report_id].status = status]
                  ELSE reports
    /\ IF u = 0
       THEN /\ resp' = Respond("api_update_report", "error500")
            /\ UNCHANGED cache
       ELSE /\ cache' = api_invalidate_report_cache(cache, u, report_id)
            /\ resp' = Respond("api_update_report", "ok")
    /\ UNCHANGED <<appts, services, nextApptId, nextReportId, salon_user, cacheVars, processVars>>

\* DELETE /api/reports/<report_id>
api_delete_report(u, report_id) ==
    /\ reports' = Drop(reports, report_id)
    /\ IF u = 0
       THEN /\ resp' = Respond("api_delete_report", "error500")
            /\ UNCHANGED cache
       ELSE /\ cache' = api_invalidate_report_cache(cache, u, report_id)
            /\ resp' = Respond("api_delete_report", "ok")
    /\ UNCHANGED <<appts, services, nextApptId, nextReportId, salon_user, cacheVars, processVars>>

\* GET /my-reports?page= by user u
my_reports(u, page) ==
    memoize("read", Key("myReports", u, user_type(u), "", page))

\* GET /report/view/<report_id>?return_to= by user u
view_report(u, report_id, return_to) ==
    memoize("read", Key("reportView", report_id, "", return_to, 0))

\* GET /view_report/<report_id> (bp_admin) by user u
admin_view_report(u, report_id) ==
    /\ role_required(u)
    /\ memoize("read", Key("adminViewReport", report_id, "", "", 0))

\* GET /view_user_reports/<user_id>?return_to= by user u
view_user_reports(u, user_id, return_to) ==
    memoize("read", Key("userReports", user_id, "", return_to, 0))

\* GET /api/reports/<report_id>
api_get_report(report_id) ==
    memoize("read", Key("apiSingleReport", report_id, "", "", 0))

----------------------------------------------------------------------------
(* bp_admin: the user routes *)

UserFilters == {"all", "clients", "professionals", "admins", "warned", "deactivated"}

\* role_required("admin_user", "admin_super")
user_role_required(u) == user_type(u) \in {"admin_user", "admin_super"}

\* bp_admin: invalidate_user_cache(cache, user_type)
invalidate_user_cache(c, utype) ==
    delete_each(c, {Key("manageUsers", 0, utype, f, 0) : f \in UserFilters})

\* the loop of edit_user and delete_user over the return types
delete_view_user_all(c, user_id) ==
    delete_each(c, {Key("viewUser", user_id, "", f, 0) : f \in UserFilters})

\* A warning that deactivates only past the third
warn_user_past_three(u, user_id, warning_text) ==
    IF ~user_role_required(u)
    THEN /\ resp' = Respond("warn_user", "AccessDenied")
         /\ UNCHANGED <<storeVars, cache, cacheVars, processVars>>
    ELSE IF user_id \notin DOMAIN salon_user
    THEN /\ resp' = Respond("warn_user", "NotFound")
         /\ UNCHANGED <<storeVars, cache, cacheVars, processVars>>
    ELSE IF warning_text = ""
    THEN /\ resp' = Respond("warn_user", "EmptyText")
         /\ UNCHANGED <<storeVars, cache, cacheVars, processVars>>
    ELSE LET new_count == salon_user[user_id].warning_count + 1
         IN  /\ salon_user' = [salon_user EXCEPT ![user_id] =
                                  [@ EXCEPT !.warning_count = new_count,
                                            !.active = IF new_count > 3 THEN FALSE ELSE @]]
             /\ cache' = delete_memoized(invalidate_user_cache(cache, user_type(u)),
                                         Key("viewUser", user_id, "", "all", 0))
             /\ resp' = Respond("warn_user", "ok")
             /\ UNCHANGED <<appts, services, reports, nextApptId, nextReportId, cacheVars, processVars>>

\* POST /warn_user/<user_id> by user u with a warning text
warn_user(u, user_id, warning_text) ==
    IF ~user_role_required(u)
    THEN /\ resp' = Respond("warn_user", "AccessDenied")
         /\ UNCHANGED <<storeVars, cache, cacheVars, processVars>>
    ELSE IF user_id \notin DOMAIN salon_user
    THEN /\ resp' = Respond("warn_user", "NotFound")
         /\ UNCHANGED <<storeVars, cache, cacheVars, processVars>>
    ELSE IF warning_text = ""
    THEN /\ resp' = Respond("warn_user", "EmptyText")
         /\ UNCHANGED <<storeVars, cache, cacheVars, processVars>>
    ELSE LET new_count == salon_user[user_id].warning_count + 1
         IN  /\ salon_user' = [salon_user EXCEPT ![user_id] =
                                  [@ EXCEPT !.warning_count = new_count,
                                            !.active = IF new_count >= 3 THEN FALSE ELSE @]]
             /\ cache' = delete_memoized(invalidate_user_cache(cache, user_type(u)),
                                         Key("viewUser", user_id, "", "all", 0))
             /\ resp' = Respond("warn_user", "ok")
             /\ UNCHANGED <<appts, services, reports, nextApptId, nextReportId, cacheVars, processVars>>

\* POST /toggle_active/<user_id> by user u
toggle_user_active(u, user_id) ==
    IF ~user_role_required(u)
    THEN /\ resp' = Respond("toggle_active", "AccessDenied")
         /\ UNCHANGED <<storeVars, cache, cacheVars, processVars>>
    ELSE IF user_id \notin DOMAIN salon_user
    THEN /\ resp' = Respond("toggle_active", "NotFound")
         /\ UNCHANGED <<storeVars, cache, cacheVars, processVars>>
    ELSE /\ salon_user' = [salon_user EXCEPT ![user_id].active = ~@]
         /\ cache' = delete_memoized(invalidate_user_cache(cache, user_type(u)),
                                     Key("viewUser", user_id, "", "all", 0))
         /\ resp' = Respond("toggle_active", "ok")
         /\ UNCHANGED <<appts, services, reports, nextApptId, nextReportId, cacheVars, processVars>>

\* POST /edit_user/<user_id> by user u (@login_required only)
edit_user(u, user_id, user_name) ==
    IF user_id \notin DOMAIN salon_user
    THEN /\ resp' = Respond("edit_user", "NotFound")
         /\ UNCHANGED <<storeVars, cache, cacheVars, processVars>>
    ELSE /\ salon_user' = [salon_user EXCEPT ![user_id].user_name = user_name]
         /\ cache' = delete_view_user_all(invalidate_user_cache(cache, user_type(u)), user_id)
         /\ resp' = Respond("edit_user", "ok")
         /\ UNCHANGED <<appts, services, reports, nextApptId, nextReportId, cacheVars, processVars>>

\* POST /delete_user/<user_id> by user u (@login_required only)
delete_user(u, user_id) ==
    /\ salon_user' = Drop(salon_user, user_id)
    /\ cache' = delete_each(
                    delete_view_user_all(invalidate_user_cache(cache, user_type(u)), user_id),
                    {Key("userAppointments", user_id, "", "", 0),
                     Key("userReports", user_id, "", "dashboard", 0)})
    /\ resp' = Respond("delete_user", "ok")
    /\ UNCHANGED <<appts, services, reports, nextApptId, nextReportId, cacheVars, processVars>>

\* GET /manage_users?type= by user u
manage_users(u, filter_type) ==
    /\ user_role_required(u)
    /\ memoize("read", Key("manageUsers", 0, user_type(u), filter_type, 0))

\* GET /view_user/<user_id>?return_type= by user u
view_user(u, user_id, return_type) ==
    memoize("read", Key("viewUser", user_id, "", return_type, 0))

----------------------------------------------------------------------------
(* Store failures: the store raises at one statement of a write.  db.execute
   and insert_and_return_id commit each statement on their own; only the
   block of a single db.cursor() is rolled back as a whole. *)

\* the statement of a two-statement write at which the store raises
Statements == {1, 2}

\* POST /create when add_appointment (1) or add_service (2) raises: the
\* except branch flashes the error, no purge was reached
create_appointment_db_error(u, provider_id, date_appoint, slot, statement) ==
    /\ appts' = IF statement = 2
                THEN Put(appts, nextApptId,
                         AppointmentRow("requested", date_appoint, slot, u, provider_id, 1))
                ELSE appts
    /\ nextApptId' = IF statement = 2 THEN nextApptId + 1 ELSE nextApptId
    /\ resp' = Respond("create", "error")
    /\ UNCHANGED <<services, reports, nextReportId, cache, salon_user, cacheVars, processVars>>

\* POST /modify_appointment/<appointment_id> when the UPDATE of the
\* appointment (1) or the UPDATE of the service (2) raises
modify_appointment_db_error(u, appointment_id, consumer_id, provider_id, date_appoint, slot, nber_services, duration, statement) ==
    /\ appointment_id \in DOMAIN appts
    /\ ~(\/ user_type(u) = "client" /\ u # appts[appointment_id].consumer_id
         \/ user_type(u) = "professional" /\ u # appts[appointment_id].provider_id)
    /\ ValidateScheduling(slot, duration, nber_services) = "ok"
    /\ appts' = IF statement = 2
                THEN update_form_row(appts, appointment_id, consumer_id, provider_id,
                                     date_appoint, slot, nber_services)
                ELSE appts
    /\ resp' = Respond("modify", "error")
    /\ UNCHANGED <<services, reports, nextApptId, nextReportId, cache, salon_user, cacheVars, processVars>>

\* POST /edit_appointment/<appt_id> when the UPDATE of the appointment (1)
\* or the UPDATE of the service (2) raises
edit_appointment_db_error(u, appt_id, consumer_id, provider_id, date_appoint, slot, nber_services, duration, statement) ==
    /\ role_required(u)
    /\ appt_id \in DOMAIN appts
    /\ ValidateScheduling(slot, duration, nber_services) = "ok"
    /\ appts' = IF statement = 2
                THEN update_form_row(appts, appt_id, consumer_id, provider_id,
                                     date_appoint, slot, nber_services)
                ELSE appts
    /\ resp' = Respond("edit", "error")
    /\ UNCHANGED <<services, reports, nextApptId, nextReportId, cache, salon_user, cacheVars, processVars>>

\* POST /delete/<appointment_id> when the DELETE of the service (1) or the
\* DELETE of the appointment (2) raises: both run in one db.cursor() block,
\* whose rollback undoes nothing on the connection of Database(), which is
\* in autocommit mode: the first DELETE stays
delete_appointment_db_error(u, appointment_id, statement) ==
    /\ appointment_id \in DOMAIN appts
    /\ \/ u \in {appts[appointment_id].consumer_id, appts[appointment_id].provider_id}
       \/ user_type(u) \in {"admin_user", "admin_super"}
    /\ ~has_report_for_appointment(reports, appointment_id)
    /\ statement \in Statements
    /\ services' = IF statement = 2
                   THEN db_delete_appointment_services(services, appointment_id)
                   ELSE services
    /\ resp' = Respond("delete", "error")
    /\ UNCHANGED <<appts, reports, nextApptId, nextReportId, salon_user, cache, cacheVars, processVars>>

----------------------------------------------------------------------------
(* The cache with its clock.  @cache.memoize(timeout=60) reads the entry
   (SimpleCache.get returns it while expires > time()), and on a miss runs
   the view function and stores the result with expires = time() + timeout.
   Nothing joins the get and the set of a read: requests of other threads,
   and the clock, run in between.  SimpleCache lives in the memory of its
   process. *)

\* @cache.memoize(timeout=60)
timeout == 60

\* the threads of the process that serve the reads
Threads == {1, 2}

\* SimpleCache.get finds an entry that has not expired
Live(k) == k \in DOMAIN cache /\ k \in DOMAIN expires /\ now < expires[k]

\* time passes
Tick ==
    /\ now + TickStep <= MaxNow
    /\ now' = now + TickStep
    /\ UNCHANGED <<storeVars, cache, resp, expires, inflight, peer, processVars>>

\* A read that runs the view function whether or not the entry is found
memoize_get_always_runs(t, k) ==
    /\ t \notin DOMAIN inflight
    /\ inflight' = Put(inflight, t,
                       [key |-> k,
                        value |-> Produce(k, appts, services, reports, salon_user)])
    /\ resp' = Respond("read", IF Live(k) THEN "hit" ELSE "miss")
    /\ UNCHANGED <<storeVars, cache, now, expires, peer, processVars>>

\* A read by thread t, up to the set: cache.get(k), and on a miss the run
\* of the view function
memoize_get(t, k) ==
    /\ t \notin DOMAIN inflight
    /\ IF Live(k)
       THEN /\ resp' = Respond("read", "hit")
            /\ UNCHANGED inflight
       ELSE /\ inflight' = Put(inflight, t,
                               [key |-> k,
                                value |-> Produce(k, appts, services, reports, salon_user)])
            /\ resp' = Respond("read", "miss")
    /\ UNCHANGED <<storeVars, cache, now, expires, peer, processVars>>

\* A set that keeps an entry another read has stored in the meantime
memoize_set_if_absent(t) ==
    /\ t \in DOMAIN inflight
    /\ IF Live(inflight[t].key)
       THEN UNCHANGED <<cache, expires>>
       ELSE /\ cache' = Put(cache, inflight[t].key, inflight[t].value)
            /\ expires' = Put(expires, inflight[t].key, now + timeout)
    /\ inflight' = Drop(inflight, t)
    /\ resp' = Respond("read", "stored")
    /\ UNCHANGED <<storeVars, now, peer, processVars>>

\* The end of a read that missed: cache.set(k, rv, timeout)
memoize_set(t) ==
    /\ t \in DOMAIN inflight
    /\ cache' = Put(cache, inflight[t].key, inflight[t].value)
    /\ expires' = Put(expires, inflight[t].key, now + timeout)
    /\ inflight' = Drop(inflight, t)
    /\ resp' = Respond("read", "stored")
    /\ UNCHANGED <<storeVars, now, peer, processVars>>

\* A read of the second process that returns its entry whatever its age
peer_memoize_never_expires(k) ==
    /\ IF k \in DOMAIN peer
       THEN /\ resp' = Respond("peer_read", "hit")
            /\ UNCHANGED peer
       ELSE /\ peer' = Put(peer, k,
                           [value |-> Produce(k, appts, services, reports, salon_user),
                            expires |-> now + timeout])
            /\ resp' = Respond("peer_read", "miss")
    /\ UNCHANGED <<storeVars, cache, now, expires, inflight, processVars>>

\* A read served by the second process, through its own SimpleCache
peer_memoize(k) ==
    /\ IF k \in DOMAIN peer /\ now < peer[k].expires
       THEN /\ resp' = Respond("peer_read", "hit")
            /\ UNCHANGED peer
       ELSE /\ peer' = Put(peer, k,
                           [value |-> Produce(k, appts, services, reports, salon_user),
                            expires |-> now + timeout])
            /\ resp' = Respond("peer_read", "miss")
    /\ UNCHANGED <<storeVars, cache, now, expires, inflight, processVars>>

----------------------------------------------------------------------------
(* bp_auth: the login of the site *)

\* Database.get_user_by_username: the id of the row found, 0 for none
get_user_by_username(U, user_name) ==
    IF \E u \in DOMAIN U : U[u].user_name = user_name
    THEN CHOOSE u \in DOMAIN U :
            /\ U[u].user_name = user_name
            /\ \A v \in DOMAIN U : U[v].user_name = user_name => u <= v
    ELSE 0

\* Database.check_password: the users of the model have the password "secret"
check_password(U, user_name, plain_password) ==
    /\ get_user_by_username(U, user_name) # 0
    /\ plain_password = "secret"

\* Database.get_reports_with_new_professional_feedback: the reports of the
\* client's appointments with a feedback_professional ("" stands for NULL)
\* and client_seen NULL or FALSE
get_reports_with_new_professional_feedback(R, A, client_id) ==
    {r \in DOMAIN R :
        /\ R[r].appointment_id \in DOMAIN A
        /\ A[R[r].appointment_id].consumer_id = client_id
        /\ R[r].feedback_professional # ""
        /\ R[r].client_seen \in {"NULL", "FALSE"}}

\* A login that announces the responses and leaves them unseen
login_without_mark(user_name, password) ==
    LET user == get_user_by_username(salon_user, user_name)
        responses == get_reports_with_new_professional_feedback(reports, appts, user)
    IN  /\ resp' = Respond("login",
                      IF user = 0 \/ password # "secret" THEN "InvalidCredentials"
                      ELSE IF ~salon_user[user].active THEN "Deactivated"
                      ELSE IF user_type(user) = "client" /\ responses # {} THEN "announced"
                      ELSE "ok")
        /\ UNCHANGED <<storeVars, cache, cacheVars, processVars>>

\* POST /login: check_password_hash, the active flag, login_user, and for a
\* client the count of the newly answered reports, which
\* mark_reports_as_seen_by_client then sets to seen
login(user_name, password) ==
    LET user == get_user_by_username(salon_user, user_name)
        responses == get_reports_with_new_professional_feedback(reports, appts, user)
    IN  IF user = 0 \/ password # "secret"
        THEN /\ resp' = Respond("login", "InvalidCredentials")
             /\ UNCHANGED <<storeVars, cache, cacheVars, processVars>>
        ELSE IF ~salon_user[user].active
        THEN /\ resp' = Respond("login", "Deactivated")
             /\ UNCHANGED <<storeVars, cache, cacheVars, processVars>>
        ELSE IF user_type(user) = "client" /\ responses # {}
        THEN /\ reports' = [r \in DOMAIN reports |->
                               IF r \in responses
                               THEN [reports[r] EXCEPT !.client_seen = "TRUE"]
                               ELSE reports[r]]
             /\ resp' = Respond("login", "announced")
             /\ UNCHANGED <<appts, services, nextApptId, nextReportId, salon_user, cache, cacheVars, processVars>>
        ELSE /\ resp' = Respond("login", "ok")
             /\ UNCHANGED <<storeVars, cache, cacheVars, processVars>>

----------------------------------------------------------------------------
(* The connection to the database.  db = Database() is one object for the
   process; its threads share the connection. *)

\* for _ in range(3)
attempts == 3

\* psycopg2 marks the connection closed, after the server or the network
\* dropped it
connection_lost ==
    /\ connection = "open"
    /\ connection' = "closed"
    /\ resp' = Respond("connection", "lost")
    /\ UNCHANGED <<storeVars, cache, cacheVars, attempt, issued, pending>>

\* Database.get_cursor, one turn of its loop.  connection.cursor() raises
\* psycopg2.Error on a closed connection and AttributeError on None;
\* __reconnect closes the connection, which sets it to None, and connects,
\* which raises DatabaseConnectionError when the server does not answer.
get_cursor(connects) ==
    /\ attempt < attempts
    /\ IF connection = "open"
       THEN /\ resp' = Respond("get_cursor", "cursor")
            /\ attempt' = 0
            /\ UNCHANGED connection
       ELSE IF connection = "None"
       THEN /\ resp' = Respond("get_cursor", "AttributeError")
            /\ attempt' = 0
            /\ UNCHANGED connection
       ELSE IF ~connects
       THEN /\ connection' = "None"
            /\ resp' = Respond("get_cursor", "DatabaseConnectionError")
            /\ attempt' = 0
       ELSE /\ connection' = "open"
            /\ IF attempt + 1 = attempts
               THEN /\ resp' = Respond("get_cursor", "DatabaseConnectionError")
                    /\ attempt' = 0
               ELSE /\ resp' = Respond("get_cursor", "retry")
                    /\ attempt' = attempt + 1
    /\ UNCHANGED <<storeVars, cache, cacheVars, issued, pending>>

----------------------------------------------------------------------------
(* accept and cancel, statement by statement.  The threads of the server
   run the handlers side by side; between the SELECT of a handler and its
   UPDATE, and between its UPDATE and its purge, other requests commit. *)

\* An accept that goes from its check to the purge, before any write
accept_read_then_purge(t, u, appointment_id) ==
    /\ t \notin DOMAIN pending
    /\ IF appointment_id \notin DOMAIN appts \/ u # appts[appointment_id].provider_id
       THEN /\ resp' = Respond("accept", "NotProvider")
            /\ UNCHANGED pending
       ELSE /\ pending' = Put(pending, t,
                              [op |-> "accept", u |-> u, appointment_id |-> appointment_id,
                               appointment |-> get_appointment_by_id(appts, services, appointment_id),
                               step |-> "purge"])
            /\ resp' = Respond("accept", "read")
    /\ UNCHANGED <<storeVars, cache, cacheVars, connection, attempt, issued>>

\* POST /accept/<appointment_id>: db.get_appointment_by_id and the check
accept_read(t, u, appointment_id) ==
    /\ t \notin DOMAIN pending
    /\ IF appointment_id \notin DOMAIN appts \/ u # appts[appointment_id].provider_id
       THEN /\ resp' = Respond("accept", "NotProvider")
            /\ UNCHANGED pending
       ELSE /\ pending' = Put(pending, t,
                              [op |-> "accept", u |-> u, appointment_id |-> appointment_id,
                               appointment |-> get_appointment_by_id(appts, services, appointment_id),
                               step |-> "write"])
            /\ resp' = Respond("accept", "read")
    /\ UNCHANGED <<storeVars, cache, cacheVars, connection, attempt, issued>>

\* accept: appointment["status"] = "accepted"; db.update_appointment(id, appointment)
accept_write(t) ==
    /\ t \in DOMAIN pending
    /\ pending[t].op = "accept" /\ pending[t].step = "write"
    /\ LET appointment == [pending[t].appointment EXCEPT !.status = "accepted"]
       IN  /\ appts' = update_appointment_row(appts, pending[t].appointment_id, appointment)
           /\ services' = update_appointment_service(services, pending[t].appointment_id, appointment)
    /\ pending' = [pending EXCEPT ![t].step = "purge"]
    /\ resp' = Respond("accept", "written")
    /\ UNCHANGED <<reports, nextApptId, nextReportId, salon_user, cache, cacheVars, connection, attempt, issued>>

\* POST /cancel/<appointment_id>: db.get_appointment_by_id and the checks
cancel_read(t, u, appointment_id) ==
    /\ t \notin DOMAIN pending
    /\ IF appointment_id \notin DOMAIN appts
       THEN /\ resp' = Respond("cancel", "NotFound")
            /\ UNCHANGED pending
       ELSE IF u \notin {appts[appointment_id].provider_id, appts[appointment_id].consumer_id}
       THEN /\ resp' = Respond("cancel", "NotParticipant")
            /\ UNCHANGED pending
       ELSE IF appts[appointment_id].status # "requested"
       THEN /\ resp' = Respond("cancel", "InvalidTransition")
            /\ UNCHANGED pending
       ELSE /\ pending' = Put(pending, t,
                              [op |-> "cancel", u |-> u, appointment_id |-> appointment_id,
                               appointment |-> get_appointment_by_id(appts, services, appointment_id),
                               step |-> "write"])
            /\ resp' = Respond("cancel", "read")
    /\ UNCHANGED <<storeVars, cache, cacheVars, connection, attempt, issued>>

\* cancel: db.update_appointment_status(appointment_id, "cancelled")
cancel_write(t) ==
    /\ t \in DOMAIN pending
    /\ pending[t].op = "cancel" /\ pending[t].step = "write"
    /\ appts' = update_appointment_status(appts, pending[t].appointment_id, "cancelled")
    /\ pending' = [pending EXCEPT ![t].step = "purge"]
    /\ resp' = Respond("cancel", "written")
    /\ UNCHANGED <<services, reports, nextApptId, nextReportId, salon_user, cache, cacheVars, connection, attempt, issued>>

\* accept and cancel: invalidate_my_appt_cache()
request_purge(t) ==
    /\ t \in DOMAIN pending
    /\ pending[t].step = "purge"
    /\ cache' = invalidate_my_appt_cache(cache, pending[t].u)
    /\ pending' = [pending EXCEPT ![t].step = "respond"]
    /\ resp' = Respond(pending[t].op, "purged")
    /\ UNCHANGED <<storeVars, cacheVars, connection, attempt, issued>>

\* accept and cancel: flash(...) and return redirect(...)
request_respond(t) ==
    /\ t \in DOMAIN pending
    /\ pending[t].step = "respond"
    /\ pending' = Drop(pending, t)
    /\ resp' = Respond(pending[t].op, "ok")
    /\ UNCHANGED <<storeVars, cache, cacheVars, connection, attempt, issued>>

----------------------------------------------------------------------------
(* The JWT endpoints.  A token is the request's Authorization header: none,
   text that is no JWT, or a JWT with its claims and the key that signed it. *)

\* app.config["JWT_SECRET_KEY"]
JWT_SECRET_KEY == "super-secret-key"

Token(form, sub, username, key) ==
    [form |-> form, sub |-> sub, username |-> username, key |-> key]

\* POST /api/login
api_login(user_name, password) ==
    LET user == get_user_by_username(salon_user, user_name)
    IN  /\ IF user # 0 /\ check_password(salon_user, user_name, password)
           THEN /\ issued' = issued \cup {Token("jwt", user, user_name, JWT_SECRET_KEY)}
                /\ resp' = Respond("api_login", "200")
           ELSE /\ resp' = Respond("api_login", "401")
                /\ UNCHANGED issued
        /\ UNCHANGED <<storeVars, cache, cacheVars, connection, attempt, pending>>

\* GET /api/secret under @jwt_required(): no header is 401, a token that
\* does not decode or whose signature does not verify is 422
secret_stuff(token) ==
    /\ resp' = Respond("secret",
                       IF token.form = "none" THEN "401"
                       ELSE IF token.form # "jwt" \/ token.key # JWT_SECRET_KEY THEN "422"
                       ELSE "200")
    /\ UNCHANGED <<storeVars, cache, cacheVars, processVars>>

----------------------------------------------------------------------------
(* The inputs the requests are drawn from *)

ApptIds == 1..MaxAppts
ReportIds == 1..MaxReports
\* a date before today (the only kind a client may report on)
PastDate == 0 - 1
\* the choice of the slot select fields the requests use
MorningSlot == SlotText(10)
\* the slot of noon, which no select field lists
NoonSlot == SlotText(12)
\* texts typed into the free slot field of the modify form: a listed slot,
\* a text without a dash, a dashed text that is no listed slot, and noon
FreeSlotTexts ==
    {MorningSlot, <<"1", "0", "t", "o", "1", "1">>, <<"1", "0", "-", "1", "2">>, NoonSlot}
DurationInputs == 1..(MaxDurationInput + 1)
NberInputs == 1..MaxNberInput
\* an integer field with DataRequired alone takes any integer but 0
NegativeInput == 0 - 1
UnrangedDurationInputs == {NegativeInput} \cup DurationInputs
UnrangedNberInputs == {NegativeInput} \cup NberInputs

\* PUT bodies: the record as GET returns it, with the status the caller sets
ApiUpdateBodies(appt_id) ==
    IF appt_id \in DOMAIN appts
    THEN {[get_appointment_by_id(appts, services, appt_id) EXCEPT !.status = s] :
             s \in Statuses}
    ELSE {[status |-> "requested", date_appoint |-> PastDate, slot |-> MorningSlot,
           consumer_id |-> 1, provider_id |-> 2, nber_services |-> 1,
           service_duration |-> 1, service_price |-> DefaultPayRate]}

\* POST bodies: the four required fields, a date, a slot and a status
ApiCreateBodies ==
    {[status |-> s, date_appoint |-> PastDate, slot |-> MorningSlot,
      consumer_id |-> 1, provider_id |-> p, nber_services |-> 1] :
        s \in {"requested", "accepted"}, p \in get_provider_choices}

\* room left in the tables for one more row
CanAddAppointment == nextApptId <= MaxAppts
CanAddReport == nextReportId <= MaxReports

Init ==
    /\ appts = [x \in {} |-> 0]
    /\ services = [x \in {} |-> 0]
    /\ reports = [x \in {} |-> 0]
    /\ nextApptId = 1
    /\ nextReportId = 1
    /\ salon_user = [u \in Users |-> SalonUserRow(TRUE, 0, "a")]
    /\ cache = [x \in {} |-> NoBody]
    /\ resp = Respond("none", "ok")
    /\ now = 0
    /\ expires = [x \in {} |-> 0]
    /\ inflight = [x \in {} |-> 0]
    /\ peer = [x \in {} |-> 0]
    /\ connection = "open"
    /\ attempt = 0
    /\ issued = {}
    /\ pending = [x \in {} |-> 0]

\* The appointment lifecycle through every route, the appointment views
\* and the client's report form.  The forms are submitted with one valid
\* set of scheduling values; SpecForms varies them.
Next ==
    \/ /\ CanAddAppointment
       /\ \E p \in get_provider_choices :
            create_appointment(1, p, PastDate, MorningSlot, 1)
    \/ \E u \in Users, a \in ApptIds : accept_appointment(u, a)
    \/ \E u \in Users, a \in ApptIds : cancel_appointment(u, a)
    \/ \E u \in Users, a \in ApptIds : delete_appointment(u, a)
    \/ \E u \in Users, a \in ApptIds, p \in get_provider_choices :
            modify_appointment(u, a, 1, p, PastDate, MorningSlot, 1, 1)
    \/ \E u \in Users, a \in ApptIds, p \in get_provider_choices :
            edit_appointment(u, a, 1, p, PastDate, MorningSlot, 1, 1)
    \/ \E u \in Users, a \in ApptIds : admin_delete_appointment(u, a)
    \/ /\ CanAddAppointment
       /\ \E u \in Users, p \in get_provider_choices :
            admin_create_appointment(u, 1, p, PastDate, MorningSlot, 1, 1)
    \/ /\ CanAddAppointment
       /\ \E data \in ApiCreateBodies : api_create_appointment(data)
    \/ \E a \in ApptIds : \E data \in ApiUpdateBodies(a) : api_update_appointment(a, data)
    \/ \E a \in ApptIds : api_delete_appointment(a)
    \/ \E u \in Users : my_appointments(u, 1)
    \/ \E u \in Users, st \in ManageStatuses : manage_appointments(u, st)
    \/ \E u \in Users, a \in ApptIds : view_admin_appointment(u, a, "all")
    \/ \E u \in Users, v \in Users : view_user_appointments(u, v)
    \/ list_all_appointments("all", 1)
    \/ get_appointments
    \/ \E a \in ApptIds : get_single_appointment(a)
    \/ /\ CanAddReport
       /\ \E u \in Users, a \in ApptIds : create_reports(u, a)

Spec == Init /\ [][Next]_vars

\* The forms that carry scheduling values, submitted with valid and invalid
\* slots, durations and service counts, and the client's list that shows
\* the outcome
NextForms ==
    \/ /\ CanAddAppointment
       /\ \E p \in get_provider_choices, dur \in UnrangedDurationInputs :
            create_appointment(1, p, PastDate, MorningSlot, dur)
    \/ \E u \in Users, a \in ApptIds, p \in get_provider_choices,
          sl \in FreeSlotTexts, n \in NberInputs, dur \in DurationInputs :
            modify_appointment(u, a, 1, p, PastDate, sl, n, dur)
    \/ \E u \in Users, a \in ApptIds, p \in get_provider_choices,
          n \in NberInputs, dur \in DurationInputs :
            edit_appointment(u, a, 1, p, PastDate, MorningSlot, n, dur)
    \/ /\ CanAddAppointment
       /\ \E u \in Users, p \in get_provider_choices, n \in UnrangedNberInputs,
             dur \in UnrangedDurationInputs :
            admin_create_appointment(u, 1, p, PastDate, MorningSlot, dur, n)
    \/ my_appointments(1, 1)

SpecForms == Init /\ [][NextForms]_vars

\* One provider's list of appointments growing past its first page: the
\* client books with provider 2, who accepts and reads either page
PagedApptIds == 1..MaxPagedAppts
PageInputs == 1..2

NextPages ==
    \/ /\ nextApptId <= MaxPagedAppts
       /\ create_appointment(1, 2, PastDate, MorningSlot, 1)
    \/ \E a \in PagedApptIds : accept_appointment(2, a)
    \/ \E pg \in PageInputs : my_appointments(2, pg)

SpecPages == Init /\ [][NextPages]_vars

\* The report routes and the report views, on the appointment the client
\* booked.  An API request comes without a session (0) or with the
\* client's.
ReportStatusInputs == {"open", "closed"}

NextReports ==
    \/ /\ CanAddAppointment
       /\ create_appointment(1, 2, PastDate, MorningSlot, 1)
    \/ /\ CanAddReport
       /\ \E u \in Users, a \in ApptIds : create_reports(u, a)
    \/ /\ CanAddReport
       /\ \E u \in Users, a \in ApptIds : manage_reports_create(u, "all", a, "open")
    \/ \E u \in Users, r \in ReportIds, st \in ReportStatusInputs :
            respond_to_report(u, r, st)
    \/ \E u \in Users, r \in ReportIds, flag \in BOOLEAN : flag_report(u, r, flag)
    \/ \E u \in Users, r \in ReportIds, st \in ReportStatusInputs : edit_report(u, r, st)
    \/ \E u \in Users, r \in ReportIds : delete_report(u, r)
    \/ \E u \in {0, 1}, r \in ReportIds, st \in ReportStatusInputs :
            api_update_report(u, r, st)
    \/ \E u \in {0, 1}, r \in ReportIds : api_delete_report(u, r)
    \/ \E u \in Users : my_reports(u, 1)
    \/ \E u \in Users, r \in ReportIds : view_report(u, r, "my_reports")
    \/ \E u \in Users, r \in ReportIds : admin_view_report(u, r)
    \/ \E u \in Users : view_user_reports(u, 1, "dashboard")
    \/ \E r \in ReportIds : api_get_report(r)

SpecReports == Init /\ [][NextReports]_vars

\* The user routes of the admins on the client's account, and the views
\* that show it.  A request comes from an account that still exists.
UserTargets == {1}
UserFilterInputs == {"all", "warned"}

NextUsers ==
    \/ \E u \in DOMAIN salon_user, v \in UserTargets :
            /\ v \in DOMAIN salon_user => salon_user[v].warning_count < MaxWarnings
            /\ \E text \in {"", "late"} : warn_user(u, v, text)
    \/ \E u \in DOMAIN salon_user, v \in UserTargets : toggle_user_active(u, v)
    \/ \E u \in DOMAIN salon_user, v \in UserTargets, name \in {"a", "b"} :
            edit_user(u, v, name)
    \/ \E u \in DOMAIN salon_user, v \in UserTargets : delete_user(u, v)
    \/ \E u \in DOMAIN salon_user, f \in UserFilterInputs : manage_users(u, f)
    \/ \E u \in DOMAIN salon_user, v \in UserTargets, f \in UserFilterInputs :
            view_user(u, v, f)
    \/ \E u \in DOMAIN salon_user, v \in UserTargets : view_user_appointments(u, v)
    \/ \E u \in DOMAIN salon_user, v \in UserTargets :
            view_user_reports(u, v, "dashboard")

SpecUsers == Init /\ [][NextUsers]_vars

\* The two-statement writes of the form routes, each also with the store
\* raising at one of its statements, and a listing read.
NextFaults ==
    \/ /\ CanAddAppointment
       /\ \E p \in get_provider_choices :
            create_appointment(1, p, PastDate, MorningSlot, 1)
    \/ /\ CanAddAppointment
       /\ \E p \in get_provider_choices, st \in Statements :
            create_appointment_db_error(1, p, PastDate, MorningSlot, st)
    \/ \E u \in Users, a \in ApptIds, p \in get_provider_choices,
          n \in NberInputs, d \in DurationInputs :
            modify_appointment(u, a, 1, p, PastDate, MorningSlot, n, d)
    \/ \E u \in Users, a \in ApptIds, p \in get_provider_choices,
          n \in NberInputs, d \in DurationInputs, st \in Statements :
            modify_appointment_db_error(u, a, 1, p, PastDate, MorningSlot, n, d, st)
    \/ \E u \in Users, a \in ApptIds, p \in get_provider_choices,
          n \in NberInputs, d \in DurationInputs, st \in Statements :
            edit_appointment_db_error(u, a, 1, p, PastDate, MorningSlot, n, d, st)
    \/ \E u \in Users, a \in ApptIds : delete_appointment(u, a)
    \/ \E u \in Users, a \in ApptIds, st \in Statements :
            delete_appointment_db_error(u, a, st)
    \/ \E u \in Users : my_appointments(u, 1)

SpecFaults == Init /\ [][NextFaults]_vars

\* The three ways to create a report (client form, admin form, API POST) on
\* one appointment of client 1, dated before or after today, with room for
\* a second report; the API bodies name a stored appointment and a status,
\* no status (""), or a status outside the four of the forms.  Dates count
\* the days from today: 1 is tomorrow.
NextReportCreation ==
    \/ /\ CanAddAppointment
       /\ \E d \in {PastDate, 1} :
            create_appointment(1, 2, d, MorningSlot, 1)
    \/ /\ nextReportId <= MaxReports + 1
       /\ \E u \in {1, 2}, a \in ApptIds : create_reports(u, a)
    \/ /\ nextReportId <= MaxReports + 1
       /\ \E a \in ApptIds : manage_reports_create(4, "all", a, "open")
    \/ /\ nextReportId <= MaxReports + 1
       /\ \E u \in {0, 1}, a \in DOMAIN appts, st \in {"", "open", "archived"} :
            api_create_report(u, a, st)
    \/ \E u \in {0, 1}, r \in 1..(MaxReports + 1), st \in {"open", "archived"} :
            api_update_report(u, r, st)
    \/ \E r \in 1..(MaxReports + 1) : delete_report(4, r)
    \/ my_reports(1, 1)

SpecReportCreation == Init /\ [][NextReportCreation]_vars

\* The first page of the provider's list read by two threads of one process
\* and by a second process, while the clock runs; the client books and the
\* provider accepts at time 0, in the first process.
ProviderList == Key("myAppointments", 2, "professional", "", 1)

NextCache ==
    \/ /\ now = 0
       /\ CanAddAppointment
       /\ create_appointment(1, 2, PastDate, MorningSlot, 1)
    \/ /\ now = 0
       /\ \E a \in ApptIds : accept_appointment(2, a)
    \/ Tick
    \/ \E t \in Threads : memoize_get(t, ProviderList)
    \/ \E t \in Threads : memoize_set(t)
    \/ peer_memoize(ProviderList)

SpecCache == Init /\ [][NextCache]_vars

\* The cursor of the writes, acquired while the connection comes and goes
NextCursor ==
    \/ connection_lost
    \/ \E connects \in BOOLEAN : get_cursor(connects)
    \/ /\ CanAddAppointment
       /\ \E p \in get_provider_choices : create_appointment(1, p, PastDate, MorningSlot, 1)
    \/ \E u \in Users, a \in ApptIds : delete_appointment(u, a)
    \/ \E u \in Users, a \in ApptIds, st \in Statements :
            delete_appointment_db_error(u, a, st)

SpecCursor == Init /\ [][NextCursor]_vars

\* The tokens a request can carry: none, text that is no JWT, the tokens
\* issued, and JWTs made outside the application, signed with the key that
\* is written in the source or with another one
RequestTokens ==
    {Token("none", 0, "", ""), Token("malformed", 0, "", "")} \cup issued
    \cup {Token("jwt", 1, "a", k) : k \in {JWT_SECRET_KEY, "another-key"}}

NextTokens ==
    \/ \E name \in {"a", "b", "z"}, pw \in {"secret", "guess"} : api_login(name, pw)
    \/ \E token \in RequestTokens : secret_stuff(token)
    \/ \E name \in {"a", "b"} : edit_user(4, 1, name)
    \/ delete_user(4, 1)

SpecTokens == Init /\ [][NextTokens]_vars

\* The provider accepts and the client or the provider cancels, on two
\* threads, while the client changes the appointment and the provider
\* reads their list
NextRace ==
    \/ /\ CanAddAppointment
       /\ create_appointment(1, 2, PastDate, MorningSlot, 1)
    \/ \E t \in Threads, a \in ApptIds : accept_read(t, 2, a)
    \/ \E t \in Threads : accept_write(t)
    \/ \E t \in Threads, u \in {1, 2}, a \in ApptIds : cancel_read(t, u, a)
    \/ \E t \in Threads : cancel_write(t)
    \/ \E t \in Threads : request_purge(t)
    \/ \E t \in Threads : request_respond(t)
    \/ \E a \in ApptIds : modify_appointment(1, a, 1, 2, PastDate, NoonSlot, 1, 1)
    \/ my_appointments(2, 1)

SpecRace == Init /\ [][NextRace]_vars

\* The client books and reports, the professionals respond, the admin
\* deactivates and reactivates the client, and the client logs in
NextLogin ==
    \/ /\ CanAddAppointment
       /\ create_appointment(1, 2, PastDate, MorningSlot, 1)
    \/ /\ CanAddReport
       /\ \E a \in ApptIds : create_reports(1, a)
    \/ \E u \in {2, 3}, r \in ReportIds, st \in ReportStatusInputs :
            respond_to_report(u, r, st)
    \/ toggle_user_active(4, 1)
    \/ \E pw \in {"secret", "guess"} : login("a", pw)
    \/ my_reports(1, 1)

SpecLogin == Init /\ [][NextLogin]_vars

\* The three routes that check the scheduling input, on the appointment of
\* client 1 with provider 2: the client and the super admin send every
\* duration and every number of services the forms let through.
SchedulingActors == {1, 4}
SchedulingSlots == {MorningSlot, NoonSlot}

NextScheduling ==
    \/ /\ CanAddAppointment
       /\ create_appointment(1, 2, PastDate, MorningSlot, 1)
    \/ \E u \in SchedulingActors, a \in ApptIds, sl \in SchedulingSlots,
          n \in NberInputs, d \in DurationInputs :
            modify_appointment(u, a, 1, 2, PastDate, sl, n, d)
    \/ \E u \in SchedulingActors, a \in ApptIds, n \in NberInputs, d \in DurationInputs :
            edit_appointment(u, a, 1, 2, PastDate, MorningSlot, n, d)
    \/ /\ CanAddAppointment
       /\ \E u \in SchedulingActors, n \in UnrangedNberInputs,
             d \in UnrangedDurationInputs :
            admin_create_appointment(u, 1, 2, PastDate, MorningSlot, d, n)
    \/ \E u \in SchedulingActors, a \in ApptIds : delete_appointment(u, a)
    \/ my_appointments(1, 1)

SpecScheduling == Init /\ [][NextScheduling]_vars

----------------------------------------------------------------------------
(* Properties of the appointment lifecycle *)

IsParty(u, a) == u \in {appts[a].consumer_id, appts[a].provider_id}

\* C7: cancel succeeds only for the consumer or the provider of a requested
\* appointment, and then the appointment becomes cancelled; an actor who is
\* neither gets NotParticipant, a party cancelling an appointment that is
\* not requested gets InvalidTransition, and in both failures the
\* appointment, its service and the cache are left as they were.
C7_CancelGuarded ==
    [][\A u \in Users, a \in ApptIds :
         (cancel_appointment(u, a) /\ a \in DOMAIN appts) =>
            /\ (resp'.result = "ok") <=> (IsParty(u, a) /\ appts[a].status = "requested")
            /\ (resp'.result = "ok") =>
                   (a \in DOMAIN appts' /\ appts'[a].status = "cancelled")
            /\ ~IsParty(u, a) =>
                   (resp'.result = "NotParticipant" /\ UNCHANGED <<storeVars, cache>>)
            /\ (IsParty(u, a) /\ appts[a].status # "requested") =>
                   (resp'.result = "InvalidTransition" /\ UNCHANGED <<storeVars, cache>>)
      ]_vars

\* a party was refused the cancellation of an appointment that is no longer
\* requested, while a view was cached
C7_Witness ==
    /\ resp = Respond("cancel", "InvalidTransition")
    /\ \E a \in DOMAIN appts : appts[a].status \in {"accepted", "cancelled"}
    /\ DOMAIN cache # {}

\* C8: accept by an actor who is not the appointment's provider (its
\* consumer and every administrator included) fails with NotProvider and
\* writes nothing: status, fields and cache stay as they were.
C8_AcceptOnlyByProvider ==
    [][\A u \in Users, a \in ApptIds :
         (accept_appointment(u, a) /\ a \in DOMAIN appts /\ u # appts[a].provider_id) =>
            (resp'.result = "NotProvider" /\ UNCHANGED <<storeVars, cache>>)
      ]_vars

\* an accept was refused while a requested appointment and a cached view exist
C8_Witness ==
    /\ resp = Respond("accept", "NotProvider")
    /\ \E a \in DOMAIN appts : appts[a].status = "requested"
    /\ DOMAIN cache # {}

\* C3: accept of an appointment that is already accepted or cancelled
\* fails, even for its provider, and leaves the status and the cache as
\* they were.
C3_AcceptOnlyRequested ==
    [][\A u \in Users, a \in ApptIds :
         (/\ accept_appointment(u, a)
          /\ a \in DOMAIN appts
          /\ appts[a].status \in {"accepted", "cancelled"}) =>
            (resp'.result # "ok" /\ UNCHANGED <<appts, cache>>)
      ]_vars

\* C4: a cancelled appointment stays cancelled for as long as it exists:
\* no accept, cancel, modify, admin edit or API update moves it to
\* another status.
C4_CancelledIsTerminal ==
    [][\A a \in ApptIds :
         (/\ a \in DOMAIN appts
          /\ appts[a].status = "cancelled"
          /\ a \in DOMAIN appts') => appts'[a].status = "cancelled"
      ]_vars

\* C5: an appointment a report refers to is never removed, and neither is
\* its service, whichever route asks for the deletion; so every report
\* refers to an appointment that exists.
C5_ReportedAppointmentKept ==
    [][\A a \in ApptIds :
         (a \in DOMAIN appts /\ has_report_for_appointment(reports, a)) =>
            /\ a \in DOMAIN appts'
            /\ a \in DOMAIN services => a \in DOMAIN services'
            /\ \A r \in DOMAIN reports' : reports'[r].appointment_id \in DOMAIN appts'
      ]_vars

----------------------------------------------------------------------------
(* Properties of the cache *)

\* C1: after every successful mutation, a read of any cached view yields
\* what would be computed from the store as it now is; that is, no entry
\* left in the cache differs from the view of the current store.
C1_CacheIsFresh ==
    \A k \in DOMAIN cache : cache[k] = Produce(k, appts, services, reports, salon_user)

\* the appointments a step creates, changes or removes
Touched ==
    {a \in ApptIds :
        \/ (a \in DOMAIN appts) # (a \in DOMAIN appts')
        \/ (a \in DOMAIN appts /\ a \in DOMAIN appts' /\ appts[a] # appts'[a])
        \/ (a \in DOMAIN services) # (a \in DOMAIN services')
        \/ (a \in DOMAIN services /\ a \in DOMAIN services' /\ services[a] # services'[a])}

\* the users who are a party of appointment a before or after the step
PartiesAround(a) ==
    (IF a \in DOMAIN appts THEN {appts[a].consumer_id, appts[a].provider_id} ELSE {})
    \cup (IF a \in DOMAIN appts' THEN {appts'[a].consumer_id, appts'[a].provider_id} ELSE {})

\* C2: every successful create, update (accept, cancel, modify, admin edit,
\* API PUT) or delete of an appointment purges the management lists of the
\* four status tabs, the appointment lists of its consumer and of its
\* provider, the single-appointment views of its id and the list of all
\* appointments: none of these keys is in the cache after the step.
C2_AppointmentMutationPurges ==
    [][\A a \in Touched : \A k \in DOMAIN cache' :
          /\ k.view \notin {"manageAppointments", "listAllAppointments", "apiAppointments"}
          /\ k.view = "myAppointments" => k.id \notin PartiesAround(a)
          /\ k.view \in {"viewAdminAppointment", "apiSingleAppointment"} => k.id # a
      ]_vars

----------------------------------------------------------------------------
(* Properties of the scheduling checks *)

\* what the specification's validator rejects
InvalidScheduling(slot, duration, nber_services) ==
    \/ ~WellFormedSlot(slot)
    \/ ~(1 <= duration /\ duration <= max_duration(slot))
    \/ nber_services > duration

\* C6: modify runs the scheduling checks on the new values; when the slot
\* is malformed, the duration is out of range or the service count exceeds
\* the duration, the stored appointment and service stay as they were and
\* no cache entry is purged.
C6_ModifyRejectsInvalid ==
    [][\A u \in Users, a \in ApptIds, p \in get_provider_choices,
          sl \in FreeSlotTexts, n \in NberInputs, dur \in DurationInputs :
         (/\ modify_appointment(u, a, 1, p, PastDate, sl, n, dur)
          /\ a \in DOMAIN appts
          /\ InvalidScheduling(sl, dur, n)) => UNCHANGED <<appts, services, cache>>
      ]_vars

----------------------------------------------------------------------------
(* Properties of the paged list *)

\* what a read of the view under key k returns right after the step: the
\* entry the cache holds, else the view of the store
ServedNext(k) ==
    IF k \in DOMAIN cache' THEN cache'[k] ELSE Produce(k, appts', services', reports', salon_user')

\* C9: once the provider has accepted an appointment, the provider's next
\* read of their appointment list shows it as accepted, on whichever page
\* the appointment is and even if that page was cached before.
C9_AcceptShownToProvider ==
    [][\A a \in PagedApptIds :
         (accept_appointment(2, a) /\ resp'.result = "ok") =>
            \A pg \in PageInputs :
               LET served == ServedNext(Key("myAppointments", 2, user_type(2), "", pg))
               IN  \A n \in 1..Len(served.rows) :
                      served.rows[n].appointment_id = a =>
                          served.rows[n].status = "accepted"
      ]_vars

----------------------------------------------------------------------------
(* Properties of the report views *)

\* the reports a step creates, changes or removes
TouchedReports ==
    {r \in ReportIds :
        \/ (r \in DOMAIN reports) # (r \in DOMAIN reports')
        \/ (r \in DOMAIN reports /\ r \in DOMAIN reports' /\ reports[r] # reports'[r])}

\* the consumer of the appointment report r is about
ReportConsumers(r) ==
    LET about == IF r \in DOMAIN reports THEN reports[r].appointment_id
                 ELSE reports'[r].appointment_id
    IN  IF about \in DOMAIN appts THEN {appts[about].consumer_id} ELSE {}

\* C10: every successful create, update (professional response, flag,
\* unflag, admin edit, API PUT) or delete of a report purges the report
\* management lists of the four tabs, the report lists of the consumer
\* and the single-report views of its id: none of these keys is in the
\* cache after the step.
C10_ReportMutationPurges ==
    [][resp'.result = "ok" =>
         \A r \in TouchedReports : \A k \in DOMAIN cache' :
            /\ k.view # "manageReports"
            /\ k.view \in {"myReports", "userReports"} => k.id \notin ReportConsumers(r)
            /\ k.view \in {"reportView", "adminViewReport", "apiSingleReport"} => k.id # r
      ]_vars

----------------------------------------------------------------------------
(* Properties of the user views *)

\* the accounts a step changes or removes
TouchedUsers ==
    {v \in Users :
        \/ (v \in DOMAIN salon_user) # (v \in DOMAIN salon_user')
        \/ (v \in DOMAIN salon_user /\ v \in DOMAIN salon_user'
            /\ salon_user[v] # salon_user'[v])}

\* C11: every successful user update (edit, toggle active), delete or
\* warning purges the user management lists of the six filters, the
\* user's profile view of the six return types, the user's appointment
\* list and the user's report list: none of these keys is in the cache
\* after the step.
C11_UserMutationPurges ==
    [][resp'.result = "ok" =>
         \A v \in TouchedUsers : \A k \in DOMAIN cache' :
            /\ k.view # "manageUsers"
            /\ k.view \in {"viewUser", "userAppointments", "userReports"} => k.id # v
      ]_vars


----------------------------------------------------------------------------
(* Properties of the writes *)

\* C12: every write of more than one statement is all-or-nothing: when a
\* modify, an edit or a delete reports an error of the store, neither the
\* appointment nor its service was changed.
C12_WritesAllOrNothing ==
    [][resp'.result = "error" /\ resp'.op \in {"modify", "edit", "delete"} =>
            appts' = appts /\ services' = services
      ]_vars

\* C13: whenever a mutating request reports an error (a failure of the store
\* or any other exception), the store holds no effect of the request and no
\* purge was issued.
C13_ErrorLeavesNoEffect ==
    [][resp'.result \in {"error", "error500"} =>
            UNCHANGED storeVars /\ cache' = cache
      ]_vars

----------------------------------------------------------------------------
(* Properties of the stored appointments *)

\* C14: each stored appointment has exactly one service and each service
\* belongs to a stored appointment: creation persists both or neither,
\* deletion removes both.
C14_AppointmentHasService == DOMAIN appts = DOMAIN services

\* C15: right after its creation every appointment has status requested,
\* whichever path created it (client form, admin form, API POST).
C15_CreatedAsRequested ==
    [][resp'.result = "ok" /\ resp'.op \in {"create", "admin_create", "api_create"} =>
            \A a \in DOMAIN appts' \ DOMAIN appts : appts'[a].status = "requested"
      ]_vars

\* C16: each stored appointment has 1 <= duration <= max_duration of the
\* start hour of its slot, whichever route created or modified it.
C16_DurationInRange ==
    \A a \in DOMAIN appts \cap DOMAIN services :
        /\ 1 <= services[a].service_duration
        /\ services[a].service_duration <= max_duration(appts[a].slot)

\* C17: the start hour of each stored slot is in 1..11 or 13..21; no slot
\* starts at 0, at 12, or at 22 or later.
C17_SlotStartsInOpeningHours ==
    \A a \in DOMAIN appts : start_hour(appts[a].slot) \in (1..11) \cup (13..21)

\* C18: each stored appointment has 1 <= nber_services <= the duration of
\* its service.
C18_ServicesWithinDuration ==
    \A a \in DOMAIN appts \cap DOMAIN services :
        /\ 1 <= appts[a].nber_services
        /\ appts[a].nber_services <= services[a].service_duration

\* C19: after a creation and after every successful modify or admin edit
\* the price of the service is duration * nber_services * pay rate of the
\* provider (the default rate when the provider has none).
C19_PriceIsDurationTimesServicesTimesRate ==
    [][resp'.result = "ok" /\ resp'.op \in {"create", "admin_create", "modify", "edit"} =>
            \A a \in DOMAIN appts' \cap DOMAIN services' :
                (a \notin DOMAIN appts \/ a \in Touched) =>
                    services'[a].service_price =
                        services'[a].service_duration * appts'[a].nber_services
                            * get_pay_rates(appts'[a].provider_id)
      ]_vars

----------------------------------------------------------------------------
(* Properties of the scheduling checks *)

\* the outcome the checks have for a slot whose start hour parses
SchedulingRule(slot, duration, nber_services) ==
    IF duration < 1 \/ duration > max_duration(slot) THEN "DurationOutOfRange"
    ELSE IF nber_services > duration THEN "ServiceCountExceedsDuration"
    ELSE "ok"

\* C20: the validation fails with DurationOutOfRange exactly when the
\* duration is outside 1..max_duration of the start hour, otherwise with
\* ServiceCountExceedsDuration exactly when the number of services exceeds
\* the duration, otherwise it succeeds; admin create, admin edit and modify
\* apply the same rule in this order.
C20_SameRuleInOrder ==
    [][\A u \in SchedulingActors, sl \in SchedulingSlots,
          n \in UnrangedNberInputs, d \in UnrangedDurationInputs :
            /\ \A a \in DOMAIN appts :
                 /\ ( /\ modify_appointment(u, a, 1, 2, PastDate, sl, n, d)
                      /\ resp'.result # "Unauthorized" )
                        => resp'.result = SchedulingRule(sl, d, n)
                 /\ ( /\ edit_appointment(u, a, 1, 2, PastDate, sl, n, d)
                      /\ role_required(u) )
                        => resp'.result = SchedulingRule(sl, d, n)
            /\ admin_create_appointment(u, 1, 2, PastDate, sl, d, n)
                        => resp'.result = SchedulingRule(sl, d, n)
      ]_vars

\* an admin edit was refused because the services exceed the duration
C20_Witness == resp = Respond("edit", "ServiceCountExceedsDuration")

\* C21: max_duration is 12 - h for a start hour h < 12 and 22 - h otherwise,
\* for the listed start hours and for the start hour of every stored slot;
\* for every listed start hour (1..11, 13..21) it lies in 1..11 and h plus
\* max_duration is the end of the block of the slot, 12 or 22.
C21_MaxDurationEndsBlock ==
    \A h \in (1..11) \cup (13..21) \cup {start_hour(appts[a].slot) : a \in DOMAIN appts} :
        LET m == max_duration(SlotText(h))
        IN  /\ m = (IF h < 12 THEN 12 - h ELSE 22 - h)
            /\ h \in (1..11) \cup (13..21) =>
                  /\ 1 <= m /\ m <= 11
                  /\ h + m = (IF h < 12 THEN 12 ELSE 22)

\* a modify was refused because its duration exceeds max_duration
C21_Witness == resp = Respond("modify", "DurationOutOfRange")

\* C22: the slot check lets through only the texts "H-(H+1)": every other
\* text is refused with InvalidSlotFormat and nothing is written, so a
\* route that checks the slot never writes a slot of another form.
C22_OnlySlotsOfTheFormAreWritten ==
    [][resp'.op \in {"modify", "edit", "admin_create"} /\ resp'.result = "ok" =>
            \A a \in DOMAIN appts' :
                (a \notin DOMAIN appts \/ appts'[a] # appts[a])
                    => WellFormedSlot(appts'[a].slot)
      ]_vars

----------------------------------------------------------------------------
(* Properties of the authorization of delete *)

\* C23: a delete is authorized exactly when the actor is the consumer or
\* the provider of the appointment or an admin of any admin role, whatever
\* the status of the appointment; for every other actor, and so for a
\* request without a session, it fails with Unauthorized and leaves the
\* appointment, its service and the cache as they were.
C23_DeleteAuthorizedForPartiesAndAdmins ==
    [][\A a \in DOMAIN appts :
          /\ \A u \in Users :
                delete_appointment(u, a) =>
                    IF \/ IsParty(u, a)
                       \/ user_type(u) \in {"admin_user", "admin_appoint", "admin_super"}
                    THEN resp'.result \in {"ok", "ReportLinked"}
                    ELSE /\ resp'.result = "Unauthorized"
                         /\ UNCHANGED <<appts, services, cache>>
          /\ api_delete_appointment(a) =>
                    /\ resp'.result = "Unauthorized"
                    /\ UNCHANGED <<appts, services, cache>>
      ]_vars

----------------------------------------------------------------------------
(* Properties of the stored reports *)

\* C24: at most one report exists per appointment: creating a report for an
\* appointment that already has one creates nothing, through the client
\* form, the admin form and the API.
C24_OneReportPerAppointment ==
    \A r1 \in DOMAIN reports, r2 \in DOMAIN reports :
        reports[r1].appointment_id = reports[r2].appointment_id => r1 = r2

\* C25: the client form creates a report only for an appointment whose date
\* has passed and that has no report yet: a request for an appointment
\* dated today or later, or for one that has a report, creates no report.
C25_ReportOnlyAfterTheDate ==
    [][resp'.op = "create_report" =>
            \A r \in DOMAIN reports' \ DOMAIN reports :
                LET a == reports'[r].appointment_id
                IN  /\ a \in DOMAIN appts
                    /\ appts[a].date_appoint < 0
                    /\ ~has_report_for_appointment(reports, a)
      ]_vars

\* C26: each stored report has a status among open, closed, grieve and done,
\* whichever path created or updated it.
C26_ReportStatusIsOneOfFour ==
    \A r \in DOMAIN reports : reports[r].status \in {"open", "closed", "grieve", "done"}

----------------------------------------------------------------------------
(* Properties of the cache *)

\* C27: a read runs the view function only on a miss.  A read that finds an
\* entry stored less than timeout seconds ago and not purged since returns
\* that entry and runs nothing, so two reads in a row within the timeout run
\* the function once and return the same value; a read that finds no entry,
\* as after a purge, runs the function; a purge of a key without an entry
\* changes nothing.
C27_ProducerOnlyOnMiss ==
    [][\A t \in Threads :
          LET k == ProviderList
          IN  /\ memoize_get(t, k) /\ Live(k) =>
                    /\ resp' = Respond("read", "hit")
                    /\ inflight' = inflight
                    /\ cache' = cache /\ expires' = expires
              /\ memoize_get(t, k) /\ ~Live(k) =>
                    /\ resp' = Respond("read", "miss")
                    /\ t \in DOMAIN inflight'
                    /\ inflight'[t].value = Produce(k, appts, services, reports, salon_user)
              /\ k \notin DOMAIN cache =>
                    /\ ~Live(k)
                    /\ delete_memoized(cache, k) = cache
      ]_vars

\* a read is served from the entry, with no read in flight
C27_Witness ==
    /\ resp = Respond("read", "hit")
    /\ ProviderList \in DOMAIN cache
    /\ inflight = [x \in {} |-> 0]

\* C28: an entry is never returned by a read at or after the time it was
\* stored plus its timeout, so a read is served a view that differs from
\* the stored data for at most timeout seconds after the write that
\* changed the data, even without a purge.  The writes here are made at
\* time 0: a read served from an entry that differs from the view of the
\* tables comes before time 0 + timeout.
C28_StaleAtMostTimeoutAfterWrite ==
    [][\A t \in Threads :
          LET k == ProviderList
          IN  memoize_get(t, k) /\ resp' = Respond("read", "hit") =>
                  /\ now < expires[k]
                  /\ cache[k] # Produce(k, appts, services, reports, salon_user)
                        => now < 0 + timeout
      ]_vars

\* C29: reads are not single-flight.  A read that misses runs the view
\* function although another thread is running it for the same key, with
\* no purge and no expiry in between, and each of the two stores its own
\* result: the entry left in the cache is the one written last.
C29_NoSingleFlightLastWriteWins ==
    [][\A t \in Threads :
          LET k == ProviderList
          IN  /\ memoize_get(t, k) /\ ~Live(k) =>
                    /\ t \in DOMAIN inflight'
                    /\ \A t2 \in DOMAIN inflight : inflight'[t2] = inflight[t2]
              /\ memoize_set(t) =>
                    /\ cache'[inflight[t].key] = inflight[t].value
                    /\ expires'[inflight[t].key] = now + timeout
      ]_vars

\* two threads have run the view function for one key and neither has
\* stored yet, before any write and at the time of the first read
C29_Witness ==
    /\ DOMAIN inflight = Threads
    /\ inflight[1].key = inflight[2].key
    /\ DOMAIN appts = {}
    /\ now = 0

\* C30: two processes share the tables and each keeps its own cache.  A
\* write in one process, with its purge, removes nothing from the cache of
\* the other, which goes on serving the view from before the write after
\* the write has completed; it serves an entry only before the time the
\* entry expires, which is at most timeout seconds ahead, and reads the
\* tables again from then on.
C30_PeerServesStaleUntilExpiry ==
    [][LET k == ProviderList
       IN  /\ create_appointment(1, 2, PastDate, MorningSlot, 1) => peer' = peer
           /\ \A a \in ApptIds : accept_appointment(2, a) => peer' = peer
           /\ peer_memoize(k) /\ resp' = Respond("peer_read", "hit") =>
                 /\ k \in DOMAIN peer
                 /\ now < peer[k].expires
                 /\ peer[k].expires <= now + timeout
                 /\ peer' = peer
           /\ peer_memoize(k) /\ resp' = Respond("peer_read", "miss") =>
                 peer'[k].value = Produce(k, appts, services, reports, salon_user)
      ]_vars

\* the second process has served its entry, which differs from the view of
\* the tables, while the first process holds no entry for the key
C30_Witness ==
    /\ resp = Respond("peer_read", "hit")
    /\ ProviderList \in DOMAIN peer
    /\ peer[ProviderList].value # Produce(ProviderList, appts, services, reports, salon_user)
    /\ ProviderList \notin DOMAIN cache

----------------------------------------------------------------------------
(* Properties of the connection *)

\* C31: acquiring a cursor ends after at most 3 attempts, each failed
\* attempt followed by a reconnect, with a cursor or with
\* DatabaseConnectionError; a query that fails is not run again: it is
\* rolled back, so that the tables are as before it, and its error raised.
C31_CursorInThreeAttempts ==
    [][/\ \A connects \in BOOLEAN :
             get_cursor(connects) =>
                 /\ attempt' < attempts
                 /\ resp'.result \in {"cursor", "DatabaseConnectionError", "retry"}
                 /\ resp'.result = "retry" => connection' = "open"
       /\ \A u \in Users, a \in ApptIds, st \in Statements :
             delete_appointment_db_error(u, a, st) =>
                 /\ resp' = Respond("delete", "error")
                 /\ UNCHANGED storeVars
      ]_vars

----------------------------------------------------------------------------
(* Properties of the JWT endpoints *)

\* C32: GET /api/secret answers 200 only to a request that carries a token
\* issued by a successful /api/login; text that is no token is answered
\* 422 and a request without a token 401; /api/login issues a token only
\* for the name of a user with that user's password.
C32_SecretOnlyForIssuedTokens ==
    [][/\ \A token \in RequestTokens :
             secret_stuff(token) =>
                 /\ resp'.result = "200" => token \in issued
                 /\ token.form = "malformed" => resp'.result = "422"
                 /\ token.form = "none" => resp'.result = "401"
       /\ \A name \in {"a", "b", "z"}, pw \in {"secret", "guess"} :
             api_login(name, pw) /\ issued' # issued =>
                 /\ \E u \in DOMAIN salon_user : salon_user[u].user_name = name
                 /\ pw = "secret"
      ]_vars

----------------------------------------------------------------------------
(* Properties of requests served side by side *)

\* C33: a transition is one atomic attempt: however an accept and a cancel
\* of the same requested appointment interleave, one of them takes effect
\* and the other fails, so that no step takes the appointment from
\* accepted to cancelled or from cancelled to accepted.
C33_AcceptAndCancelExclude ==
    [][\A a \in DOMAIN appts \cap DOMAIN appts' :
          /\ appts[a].status = "accepted" => appts'[a].status # "cancelled"
          /\ appts[a].status = "cancelled" => appts'[a].status # "accepted"
      ]_vars

\* C34: once the write and the purge of a mutation are done and every read
\* that began before the purge has finished, no entry of the cache holds a
\* value computed from the tables of before the mutation.  Here the
\* mutation is the provider's accept: when the appointment is accepted and
\* no read is in flight, an entry for the provider's list is the list of
\* the tables as they are.
C34_NoOldValueAfterPurge ==
    (/\ DOMAIN inflight = {}
     /\ \E a \in DOMAIN appts : appts[a].status = "accepted"
     /\ ProviderList \in DOMAIN cache)
        => cache[ProviderList] = Produce(ProviderList, appts, services, reports, salon_user)

\* C35: a successful accept or cancel runs in the order check, committed
\* write, purge, response.  The check writes nothing and purges nothing;
\* the write comes next and sets the status without touching the cache;
\* the purge follows the write and removes the entry of the actor's list;
\* the response follows the purge and reports success.
C35_WriteThenPurgeThenResponse ==
    [][\A t \in Threads :
          /\ t \notin DOMAIN pending /\ t \in DOMAIN pending' =>
                /\ pending'[t].step = "write"
                /\ UNCHANGED <<storeVars, cache>>
          /\ t \in DOMAIN pending /\ t \in DOMAIN pending' /\ pending'[t] # pending[t] =>
                \/ /\ pending[t].step = "write" /\ pending'[t].step = "purge"
                   /\ cache' = cache
                   /\ appts'[pending[t].appointment_id].status =
                          (IF pending[t].op = "accept" THEN "accepted" ELSE "cancelled")
                \/ /\ pending[t].step = "purge" /\ pending'[t].step = "respond"
                   /\ UNCHANGED storeVars
                   /\ Key("myAppointments", pending[t].u, user_type(pending[t].u), "", 1)
                          \notin DOMAIN cache'
          /\ t \in DOMAIN pending /\ t \notin DOMAIN pending' =>
                /\ pending[t].step = "respond"
                /\ resp' = Respond(pending[t].op, "ok")
                /\ UNCHANGED <<storeVars, cache>>
      ]_vars

\* an accept has answered with success after its write and its purge
C35_Witness ==
    /\ resp = Respond("accept", "ok")
    /\ \E a \in DOMAIN appts : appts[a].status = "accepted"
    /\ Key("myAppointments", 2, "professional", "", 1) \notin DOMAIN cache

\* C36: the write of a successful accept changes only the status of the
\* appointment: every other column of the appointment and the columns of
\* its service are after the write what they were in the tables just
\* before it, also when a modify of the appointment has committed between
\* the read of the accept and its write.
C36_AcceptChangesOnlyStatus ==
    [][\A t \in Threads :
          accept_write(t) =>
              /\ appts' = [appts EXCEPT ![pending[t].appointment_id].status = "accepted"]
              /\ services' = services
      ]_vars

----------------------------------------------------------------------------
(* Properties of the users' administration *)

\* C37: the admin routes that change users take effect only for an actor
\* with an admin role: edit_user and delete_user called by a logged-in
\* client or professional change nothing in the tables.
C37_UserRoutesNeedAdminRole ==
    [][\A u \in Users, v \in UserTargets :
          user_type(u) \in {"client", "professional"} =>
              /\ delete_user(u, v) => UNCHANGED storeVars
              /\ \A name \in {"a", "b"} : edit_user(u, v, name) => UNCHANGED storeVars
      ]_vars

\* C38: each warning issued raises the user's warning_count by exactly
\* one, and a warning that brings the count to 3 or more deactivates the
\* account in the same request; a warning with empty text changes neither
\* the count nor the active flag.  The requests are served one at a time.
C38_WarningCountsAndDeactivates ==
    [][\A u \in Users, v \in UserTargets, text \in {"", "late"} :
          warn_user(u, v, text) =>
              /\ resp' = Respond("warn_user", "ok") =>
                    /\ salon_user'[v].warning_count = salon_user[v].warning_count + 1
                    /\ salon_user'[v].warning_count >= 3 => ~salon_user'[v].active
                    /\ salon_user'[v].warning_count < 3 =>
                          salon_user'[v].active = salon_user[v].active
              /\ resp' # Respond("warn_user", "ok") => salon_user' = salon_user
              /\ text = "" => resp' # Respond("warn_user", "ok")
      ]_vars

\* the third warning has been issued and the account is deactivated
C38_Witness ==
    /\ resp = Respond("warn_user", "ok")
    /\ 1 \in DOMAIN salon_user
    /\ salon_user[1].warning_count = 3
    /\ ~salon_user[1].active

----------------------------------------------------------------------------
(* Properties of the reports' answers *)

\* C39: a report is responded to, flagged or unflagged only by the
\* professional who is the provider of the report's appointment: a request
\* of any other actor, another professional included, leaves the report's
\* feedback_professional, status and flagged_by_professional as they were.
C39_OnlyTheProviderAnswers ==
    [][\A u \in Users, r \in DOMAIN reports :
          (/\ reports[r].appointment_id \in DOMAIN appts
           /\ u # appts[reports[r].appointment_id].provider_id) =>
              /\ \A st \in ReportStatusInputs :
                    respond_to_report(u, r, st) => reports' = reports
              /\ \A flag \in BOOLEAN :
                    flag_report(u, r, flag) => reports' = reports
      ]_vars

\* C40: after a professional responds to a report its client_seen is
\* false; the next successful login of the appointment's client counts the
\* report as newly answered and sets client_seen to true, so that a login
\* announces a report only when a response came after the last
\* announcement: each response is announced at exactly one login.
C40_ResponseAnnouncedOnce ==
    [][/\ \A u \in {2, 3}, r \in ReportIds, st \in ReportStatusInputs :
             respond_to_report(u, r, st) /\ resp' = Respond("respond", "ok") =>
                 reports'[r].client_seen = "FALSE"
       /\ \A pw \in {"secret", "guess"} :
             login("a", pw) =>
                 LET Answered == {r \in DOMAIN reports :
                                     /\ reports[r].appointment_id \in DOMAIN appts
                                     /\ appts[reports[r].appointment_id].consumer_id = 1
                                     /\ reports[r].feedback_professional # ""}
                 IN  /\ resp'.result # "announced" => reports' = reports
                     /\ resp'.result = "announced" =>
                           /\ \E r \in Answered : reports[r].client_seen # "TRUE"
                           /\ \A r \in Answered : reports'[r].client_seen = "TRUE"
                     /\ (/\ pw = "secret" /\ salon_user[1].active
                         /\ \E r \in Answered : reports[r].client_seen = "FALSE")
                           => resp'.result = "announced"
      ]_vars

\* the client has logged in after a response and the report is seen
C40_Witness ==
    /\ resp = Respond("login", "announced")
    /\ \E r \in DOMAIN reports :
          reports[r].feedback_professional # "" /\ reports[r].client_seen = "TRUE"

====
